---- MODULE Spec2Model ----
(***************************************************************************)
(* Project Rail Tabs: the service worker's tab event pipeline, the         *)
(* classifier (tokens, centroids, matcher, context tracker) and the        *)
(* assignment logic of core.ts, over an IndexedDB store.                   *)
(*                                                                         *)
(* Numbers.  JavaScript doubles are modelled in fixed point, rounded down: *)
(*   - centroid weights in tenths          (1.0 -> 10, 0.1 -> 1, 0.2 -> 2) *)
(*   - sub-scores and similarities in thousandths          (1.0 -> 1000)   *)
(*   - total scores and confidences in ten-thousandths     (0.5 -> 5000)   *)
(*   - times in milliseconds, as offsets that fit TLC's integers           *)
(*                                                                         *)
(* Asynchrony.  Every handler is an async function.  IndexedDB orders the  *)
(* transactions on a store by their creation, so a request takes effect    *)
(* when it is issued; its result reaches the handler when the await        *)
(* resumes.  One step of a handler is therefore: resume with the result of *)
(* the previous request, run the synchronous code up to the next request,  *)
(* and issue it.  Between two steps of a handler any other handler may     *)
(* step: nothing in sw.ts serialises the listeners.                        *)
(*                                                                         *)
(* Left out: TabMeta.queryKeys, featuresHash, openerTabId and embeddingId  *)
(* (written, never read), the in-memory LRU caches of storage/cache.js     *)
(* (written, never read by this code), the 'cache' object store and the    *)
(* tab actions that only call the browser (activate, close, pin, mute).    *)
(***************************************************************************)
EXTENDS Integers, Sequences, FiniteSets, TLC

(***************************************************************************)
(* Generic helpers                                                         *)
(***************************************************************************)
Min(a, b) == IF a <= b THEN a ELSE b

Max(a, b) == IF a >= b THEN a ELSE b

Range(s) == {s[i] : i \in 1..Len(s)}

\* Array.prototype.filter
FilterSeq(s, Keep(_)) == SelectSeq(s, Keep)

\* Array.prototype.slice(0, n)
Take(s, n) == SubSeq(s, 1, Min(n, Len(s)))

\* Array.prototype.slice(-n)
TakeLast(s, n) == SubSeq(s, Max(1, Len(s) - n + 1), Len(s))

\* Array.prototype.sort((a, b) => Key(b) - Key(a)): descending, stable.
InsertDesc(sorted, x, Key(_)) ==
  LET k == Cardinality({j \in 1..Len(sorted) : Key(sorted[j]) >= Key(x)})
  IN  SubSeq(sorted, 1, k) \o <<x>> \o SubSeq(sorted, k + 1, Len(sorted))

SortDescBy(s, Key(_)) ==
  LET sorted[i \in 0..Len(s)] ==
        IF i = 0 THEN <<>> ELSE InsertDesc(sorted[i - 1], s[i], Key)
  IN  sorted[Len(s)]

\* Math.sqrt, rounded down.
RECURSIVE ISqrtBetween(_, _, _)
ISqrtBetween(n, lo, hi) ==
  IF lo >= hi THEN lo
  ELSE LET mid == (lo + hi + 1) \div 2
       IN  IF mid * mid <= n THEN ISqrtBetween(n, mid, hi)
                             ELSE ISqrtBetween(n, lo, mid - 1)

ISqrt(n) == ISqrtBetween(n, 0, Min(n, 46340))

(***************************************************************************)
(* Strings (utils/url.ts, utils/tokens.ts)                                 *)
(***************************************************************************)
CharAt(s, i) == SubSeq(s, i, i)

\* String.prototype.startsWith
StartsWith(s, p) == Len(p) <= Len(s) /\ SubSeq(s, 1, Len(p)) = p

\* String.prototype.split(sep) for a one-character separator.
RECURSIVE SplitFrom(_, _, _, _)
SplitFrom(s, sep, i, cur) ==
  IF i > Len(s) THEN <<cur>>
  ELSE IF CharAt(s, i) = sep
       THEN <<cur>> \o SplitFrom(s, sep, i + 1, "")
       ELSE SplitFrom(s, sep, i + 1, cur \o CharAt(s, i))

Split(s, sep) == SplitFrom(s, sep, 1, "")

\* Array.prototype.join(sep)
RECURSIVE Join(_, _)
Join(parts, sep) ==
  IF parts = <<>> THEN ""
  ELSE IF Len(parts) = 1 THEN parts[1]
  ELSE parts[1] \o sep \o Join(Tail(parts), sep)

UpperChars == <<"A","B","C","D","E","F","G","H","I","J","K","L","M",
                "N","O","P","Q","R","S","T","U","V","W","X","Y","Z">>

LowerChars == <<"a","b","c","d","e","f","g","h","i","j","k","l","m",
                "n","o","p","q","r","s","t","u","v","w","x","y","z">>

\* String.prototype.toLowerCase, one character.
LowerChar(c) ==
  IF \E i \in 1..26 : UpperChars[i] = c
  THEN LowerChars[CHOOSE i \in 1..26 : UpperChars[i] = c]
  ELSE c

RECURSIVE ToLowerCase(_)
ToLowerCase(s) ==
  IF s = "" THEN "" ELSE LowerChar(CharAt(s, 1)) \o ToLowerCase(SubSeq(s, 2, Len(s)))

\* The regular expression class \w.
WordChars == Range(LowerChars) \cup Range(UpperChars) \cup
             {"0","1","2","3","4","5","6","7","8","9","_"}

STOP_WORDS == {
  "the", "a", "an", "and", "or", "but", "in", "on", "at", "to", "for",
  "of", "with", "by", "from", "as", "is", "was", "are", "been", "be",
  "have", "has", "had", "do", "does", "did", "will", "would", "should",
  "can", "could", "may", "might", "must", "that", "this", "these", "those"}

\* text.toLowerCase().replace(/[^\w\s-]/g, ' ').split(/[\s-]+/): every character
\* that is not a word character ends the current piece.
RECURSIVE SplitWords(_, _, _)
SplitWords(s, i, cur) ==
  IF i > Len(s) THEN <<cur>>
  ELSE IF CharAt(s, i) \in WordChars
       THEN SplitWords(s, i + 1, cur \o CharAt(s, i))
       ELSE <<cur>> \o SplitWords(s, i + 1, "")

IsToken(token) == Len(token) > 2 /\ token \notin STOP_WORDS

extractTokens(text) == FilterSeq(SplitWords(ToLowerCase(text), 1, ""), IsToken)

RECURSIVE FlatMapExtract(_)
FlatMapExtract(segs) ==
  IF segs = <<>> THEN <<>> ELSE extractTokens(Head(segs)) \o FlatMapExtract(Tail(segs))

LongerThanTwo(t) == Len(t) > 2

\* tokenize({host, pathTokens, title, h1, meta}); an absent or empty input adds
\* nothing.
tokenize(host, pathTokens, title, h1, meta) ==
  (IF host # "" THEN FilterSeq(Split(host, "."), LongerThanTwo) ELSE <<>>)
  \o FlatMapExtract(pathTokens)
  \o (IF title # "" THEN extractTokens(title) ELSE <<>>)
  \o (IF h1 # "" THEN extractTokens(h1) ELSE <<>>)
  \o (IF meta # "" THEN extractTokens(meta) ELSE <<>>)

getPathPrefix(pathTokens, depth) == Join(Take(pathTokens, depth), "/")

createSubprojectKey(host, pathTokens, depth) ==
  host \o ":" \o getPathPrefix(pathTokens, depth)

\* host.split('.').slice(-2).join('.')
RegistrableDomain(host) == Join(TakeLast(Split(host, "."), 2), ".")

\* Index of the first occurrence of the one-character string c at or after i, or 0.
RECURSIVE IndexOfFrom(_, _, _)
IndexOfFrom(s, c, i) ==
  IF i > Len(s) THEN 0
  ELSE IF CharAt(s, i) = c THEN i ELSE IndexOfFrom(s, c, i + 1)

NonEmpty(t) == t # ""

RECURSIVE MapLower(_)
MapLower(segs) ==
  IF segs = <<>> THEN <<>> ELSE <<ToLowerCase(Head(segs))>> \o MapLower(Tail(segs))

\* A parseUrl that lets a url with an empty host through.
parseUrlAnyHost(url) ==
  LET colon == IndexOfFrom(url, ":", 1)
  IN  IF colon <= 1 \/ colon + 2 > Len(url) \/ SubSeq(url, colon, colon + 2) # "://"
      THEN <<>>
      ELSE
        LET rest  == SubSeq(url, colon + 3, Len(url))
            q     == IndexOfFrom(rest, "?", 1)
            noQ   == IF q = 0 THEN rest ELSE SubSeq(rest, 1, q - 1)
            slash == IndexOfFrom(noQ, "/", 1)
            host  == IF slash = 0 THEN noQ ELSE SubSeq(noQ, 1, slash - 1)
            path  == IF slash = 0 THEN "/" ELSE SubSeq(noQ, slash, Len(noQ))
        IN  <<[host       |-> ToLowerCase(host),
               pathTokens |-> MapLower(FilterSeq(Split(path, "/"), NonEmpty))]>>

\* parseUrl: <<>> for null, else <<[host, pathTokens]>>.  new URL() is modelled on
\* absolute URLs "scheme://host/path?query" without port, credentials, fragment or
\* percent escapes: it throws unless a non-empty scheme is followed by "://" and a
\* non-empty host.
parseUrl(url) ==
  LET colon == IndexOfFrom(url, ":", 1)
  IN  IF colon <= 1 \/ colon + 2 > Len(url) \/ SubSeq(url, colon, colon + 2) # "://"
      THEN <<>>
      ELSE
        LET rest  == SubSeq(url, colon + 3, Len(url))
            q     == IndexOfFrom(rest, "?", 1)
            noQ   == IF q = 0 THEN rest ELSE SubSeq(rest, 1, q - 1)
            slash == IndexOfFrom(noQ, "/", 1)
            host  == IF slash = 0 THEN noQ ELSE SubSeq(noQ, 1, slash - 1)
            path  == IF slash = 0 THEN "/" ELSE SubSeq(noQ, slash, Len(noQ))
        IN  IF host = "" \/ \E i \in 1..Len(host) : CharAt(host, i) = " " THEN <<>>
            ELSE <<[host       |-> ToLowerCase(host),
                    pathTokens |-> MapLower(FilterSeq(Split(path, "/"), NonEmpty))]>>

(***************************************************************************)
(* Centroid model (utils/tokens.ts)                                        *)
(***************************************************************************)
\* Weight 1 of createCentroid, in tenths.
UnitWeight == 10

\* The update weights 0.1 and 0.2 of updateProjectCentroid, in tenths.
ProjectUpdateWeight == 1

SubprojectUpdateWeight == 2

EmptyCentroid == [tokens |-> <<>>, totalWeight |-> 0]

\* Map.get(token) || 0
WeightOf(map, token) == IF token \in DOMAIN map THEN map[token] ELSE 0

\* tokens.forEach(token => map.set(token, (map.get(token) || 0) + weight))
RECURSIVE AddTokens(_, _, _)
AddTokens(map, tokens, weight) ==
  IF tokens = <<>> THEN map
  ELSE LET t == Head(tokens)
           m == [x \in DOMAIN map \cup {t} |->
                   IF x = t THEN WeightOf(map, t) + weight ELSE map[x]]
       IN  AddTokens(m, Tail(tokens), weight)

\* weights = <<>> stands for the absent optional argument.
RECURSIVE CreateFrom(_, _, _, _)
CreateFrom(tokenArrays, weights, idx, acc) ==
  IF idx > Len(tokenArrays) THEN acc
  ELSE LET weight == IF idx <= Len(weights) THEN weights[idx] ELSE UnitWeight
       IN  CreateFrom(tokenArrays, weights, idx + 1,
             [tokens      |-> AddTokens(acc.tokens, tokenArrays[idx], weight),
              totalWeight |-> acc.totalWeight + weight * Len(tokenArrays[idx])])

createCentroid(tokenArrays, weights) == CreateFrom(tokenArrays, weights, 1, EmptyCentroid)

\* An update that counts a token once, however often it occurs in the list.
updateCentroidByToken(centroid, tokens, weight) ==
  LET distinct == {tokens[k] : k \in 1..Len(tokens)}
  IN  [tokens      |-> [t \in DOMAIN centroid.tokens \cup distinct |->
                          WeightOf(centroid.tokens, t) + (IF t \in distinct THEN weight ELSE 0)],
       totalWeight |-> centroid.totalWeight + weight * Cardinality(distinct)]

updateCentroid(centroid, tokens, weight) ==
  [tokens      |-> AddTokens(centroid.tokens, tokens, weight),
   totalWeight |-> centroid.totalWeight + weight * Len(tokens)]

RECURSIVE SumOver(_, _)
SumOver(f, S) ==
  IF S = {} THEN 0 ELSE LET x == CHOOSE y \in S : TRUE IN f[x] + SumOver(f, S \ {x})

\* floor(1000000 * a / b) for 0 <= a <= b, by long division (no overflow).
MillionthsOf(a, b) ==
  LET y1 == (1000 * a) \div b
      r1 == (1000 * a) % b
  IN  1000 * y1 + (1000 * r1) \div b

\* A cosine whose dot product counts a token once per occurrence in the list.
cosineSimilarityPerOccurrence(centroid, tokens) ==
  IF DOMAIN centroid.tokens = {} \/ tokens = <<>> THEN 0
  ELSE
    LET keys       == DOMAIN centroid.tokens
        dotProduct == SumOver([k \in 1..Len(tokens) |-> WeightOf(centroid.tokens, tokens[k])],
                              1..Len(tokens))
        magSquared == SumOver([t \in keys |-> centroid.tokens[t] * centroid.tokens[t]], keys)
    IN  IF magSquared = 0 THEN 0
        ELSE ISqrt(MillionthsOf(dotProduct * dotProduct, magSquared * Len(tokens)))

\* In thousandths.  dotProduct / (sqrt(centroidMag) * sqrt(tokens.length))
cosineSimilarity(centroid, tokens) ==
  IF DOMAIN centroid.tokens = {} \/ tokens = <<>> THEN 0
  ELSE
    LET keys       == DOMAIN centroid.tokens
        dotProduct == SumOver(centroid.tokens, keys \cap Range(tokens))
        magSquared == SumOver([t \in keys |-> centroid.tokens[t] * centroid.tokens[t]], keys)
    IN  IF magSquared = 0 THEN 0
        ELSE ISqrt(MillionthsOf(dotProduct * dotProduct, magSquared * Len(tokens)))

\* In thousandths.
jaccardSimilarity(centroid, tokens) ==
  IF DOMAIN centroid.tokens = {} \/ tokens = <<>> THEN 0
  ELSE
    LET tokenSet     == Range(tokens)
        intersection == Cardinality(DOMAIN centroid.tokens \cap tokenSet)
        union        == Cardinality(DOMAIN centroid.tokens) + Cardinality(tokenSet)
                        - intersection
    IN  IF union = 0 THEN 0 ELSE (1000 * intersection) \div union

\* In thousandths.  0.6 * cosine + 0.4 * jaccard
weightedTokenSimilarity(centroid, tokens) ==
  (600 * cosineSimilarity(centroid, tokens) + 400 * jaccardSimilarity(centroid, tokens))
    \div 1000

(***************************************************************************)
(* Matcher (classifier/matcher.ts)                                         *)
(***************************************************************************)
\* DEFAULT_MATCHER_CONFIG; the weights in tenths, the threshold in ten-thousandths.
hostMatchWeight == 30

pathMatchWeight == 20

chainWeight == 20

tokenWeight == 15

recencyWeight == 10

minThreshold == 3000

\* tab.pageSignals?.h1, tab.pageSignals?.metaDescription
SignalH1(tab) == IF tab.pageSignals = <<>> THEN "" ELSE tab.pageSignals[1].h1

SignalMeta(tab) ==
  IF tab.pageSignals = <<>> THEN "" ELSE tab.pageSignals[1].metaDescription

\* The first rule that returns decides; then the subprojects.
RECURSIVE HostRuleScore(_, _)
HostRuleScore(tab, rules) ==
  IF rules = <<>> THEN 0
  ELSE LET rule == Head(rules)
       IN  IF rule.type = "host" /\ tab.host = rule.value THEN 1000
           ELSE IF rule.type = "domain" /\ RegistrableDomain(tab.host) = rule.value
                THEN 800
                ELSE HostRuleScore(tab, Tail(rules))

scoreHostMatch(tab, project) ==
  LET byRule == HostRuleScore(tab, project.rules)
  IN  IF byRule > 0 THEN byRule
      ELSE IF \E i \in 1..Len(project.subprojects) :
                project.subprojects[i].signature.host = tab.host
           THEN 900
           ELSE 0

\* Math.min(1.0, value.split('/').length * 0.25)
PrefixScore(prefix) == Min(1000, Len(Split(prefix, "/")) * 250)

scorePathMatch(tab, project) ==
  LET tabPath == Join(tab.pathTokens, "/")
      byRule  == {PrefixScore(project.rules[i].value) :
                    i \in {j \in 1..Len(project.rules) :
                             /\ project.rules[j].type = "path_prefix"
                             /\ StartsWith(tabPath, project.rules[j].value)}}
      bySub   == {PrefixScore(project.subprojects[i].signature.pathPrefix) :
                    i \in {j \in 1..Len(project.subprojects) :
                             StartsWith(tabPath, project.subprojects[j].signature.pathPrefix)}}
      all     == byRule \cup bySub \cup {0}
  IN  CHOOSE m \in all : \A x \in all : x <= m

scoreTokenSimilarity(tab, project) ==
  weightedTokenSimilarity(project.centroid,
    tokenize(tab.host, tab.pathTokens, tab.title, SignalH1(tab), SignalMeta(tab)))

\* context: <<>> for undefined, else <<ActiveContext>>.
scoreChainProximity(tab, project, context) ==
  IF context = <<>> THEN 0
  ELSE LET ctx  == context[1]
           hits == {i \in 1..Len(ctx.recentTabs) :
                      ctx.recentTabs[i].projectId = project.projectId}
       IN  IF ctx.activeProjectId = project.projectId THEN 1000
           ELSE IF hits # {}
                THEN LET first == CHOOSE i \in hits : \A j \in hits : i <= j
                     IN  (ctx.recentTabs[first].weight * 8) \div 10
                ELSE 0

\* now: the value of Date.now() at the call.
scoreRecencyBoost(project, context, now) ==
  IF context = <<>> THEN 0
  ELSE IF context[1].activeProjectId = project.projectId THEN 1000
  ELSE LET timeSinceActive == now - project.lastActiveAt
       IN  IF timeSinceActive < 5 * 60000 THEN 900
           ELSE IF timeSinceActive < 15 * 60000 THEN 600
           ELSE IF timeSinceActive < 30 * 60000 THEN 300
           ELSE 0

\* A resolution that accepts the best subproject at 0.3 already.
findBestSubprojectAtThreshold(tab, project) ==
  LET subs == project.subprojects
      key  == createSubprojectKey(tab.host, tab.pathTokens, 2)
      SigKey(i) == subs[i].signature.host \o ":" \o subs[i].signature.pathPrefix
      exact == {i \in 1..Len(subs) : SigKey(i) = key}
      tabTokens == tokenize(tab.host, tab.pathTokens, tab.title, "", "")
      tabPath == Join(tab.pathTokens, "/")
      Score(i) ==
        (IF subs[i].signature.host = tab.host THEN 500000 ELSE 0)
        + (IF StartsWith(tabPath, subs[i].signature.pathPrefix) THEN 300000 ELSE 0)
        + weightedTokenSimilarity(subs[i].signature.tokenCentroid, tabTokens) * 200
      best == CHOOSE i \in 1..Len(subs) :
                /\ \A j \in 1..Len(subs) : Score(j) <= Score(i)
                /\ \A j \in 1..(i - 1) : Score(j) < Score(i)
  IN  IF subs = <<>> THEN 0
      ELSE IF exact # {}
           THEN subs[CHOOSE i \in exact : \A j \in exact : i <= j].subprojectId
           ELSE IF Score(best) >= 300000 THEN subs[best].subprojectId ELSE 0

\* 0 for "no subproject"; scores in millionths.
findBestSubproject(tab, project) ==
  LET subs == project.subprojects
      key  == createSubprojectKey(tab.host, tab.pathTokens, 2)
      SigKey(i) == subs[i].signature.host \o ":" \o subs[i].signature.pathPrefix
      exact == {i \in 1..Len(subs) : SigKey(i) = key}
      tabTokens == tokenize(tab.host, tab.pathTokens, tab.title, "", "")
      tabPath == Join(tab.pathTokens, "/")
      Score(i) ==
        (IF subs[i].signature.host = tab.host THEN 500000 ELSE 0)
        + (IF StartsWith(tabPath, subs[i].signature.pathPrefix) THEN 300000 ELSE 0)
        + weightedTokenSimilarity(subs[i].signature.tokenCentroid, tabTokens) * 200
      \* score > bestScore: the first subproject with the highest score.
      best == CHOOSE i \in 1..Len(subs) :
                /\ \A j \in 1..Len(subs) : Score(j) <= Score(i)
                /\ \A j \in 1..(i - 1) : Score(j) < Score(i)
  IN  IF subs = <<>> THEN 0
      ELSE IF exact # {}
           THEN subs[CHOOSE i \in exact : \A j \in exact : i <= j].subprojectId
           ELSE IF Score(best) > 300000 THEN subs[best].subprojectId ELSE 0

\* The total divided by the sum of the weights, 9.5.
scoreTabForProjectNormalized(tab, project, context, now) ==
  LET breakdown ==
        [hostMatch       |-> scoreHostMatch(tab, project),
         pathMatch       |-> scorePathMatch(tab, project),
         tokenSimilarity |-> scoreTokenSimilarity(tab, project),
         chainProximity  |-> scoreChainProximity(tab, project, context),
         recencyBoost    |-> scoreRecencyBoost(project, context, now)]
  IN  [projectId    |-> project.projectId,
       subprojectId |-> findBestSubproject(tab, project),
       score        |-> ((hostMatchWeight * breakdown.hostMatch
                          + pathMatchWeight * breakdown.pathMatch
                          + tokenWeight * breakdown.tokenSimilarity
                          + chainWeight * breakdown.chainProximity
                          + recencyWeight * breakdown.recencyBoost) * 10) \div 95,
       breakdown    |-> breakdown]

\* A total that weighs the token similarity 2.0 and the chain proximity 1.5.
scoreTabForProjectTokenHeavy(tab, project, context, now) ==
  LET breakdown ==
        [hostMatch       |-> scoreHostMatch(tab, project),
         pathMatch       |-> scorePathMatch(tab, project),
         tokenSimilarity |-> scoreTokenSimilarity(tab, project),
         chainProximity  |-> scoreChainProximity(tab, project, context),
         recencyBoost    |-> scoreRecencyBoost(project, context, now)]
  IN  [projectId    |-> project.projectId,
       subprojectId |-> findBestSubproject(tab, project),
       score        |-> hostMatchWeight * breakdown.hostMatch
                        + pathMatchWeight * breakdown.pathMatch
                        + chainWeight * breakdown.tokenSimilarity
                        + tokenWeight * breakdown.chainProximity
                        + recencyWeight * breakdown.recencyBoost,
       breakdown    |-> breakdown]

scoreTabForProject(tab, project, context, now) ==
  LET breakdown ==
        [hostMatch       |-> scoreHostMatch(tab, project),
         pathMatch       |-> scorePathMatch(tab, project),
         tokenSimilarity |-> scoreTokenSimilarity(tab, project),
         chainProximity  |-> scoreChainProximity(tab, project, context),
         recencyBoost    |-> scoreRecencyBoost(project, context, now)]
  IN  [projectId    |-> project.projectId,
       subprojectId |-> findBestSubproject(tab, project),
       score        |-> hostMatchWeight * breakdown.hostMatch
                        + pathMatchWeight * breakdown.pathMatch
                        + tokenWeight * breakdown.tokenSimilarity
                        + chainWeight * breakdown.chainProximity
                        + recencyWeight * breakdown.recencyBoost,
       breakdown    |-> breakdown]

ResultScore(result) == result.score

\* A threshold that a total of exactly minThreshold does not pass.
AboveMinThresholdOnly(result) == result.score > minThreshold

\* result.score >= this.config.minThreshold
AboveMinThreshold(result) == result.score >= minThreshold

scoreAllProjects(tab, projects, context, now) ==
  SortDescBy(
    FilterSeq([i \in 1..Len(projects) |-> scoreTabForProject(tab, projects[i], context, now)],
              AboveMinThreshold),
    ResultScore)

ProjectLastActive(p) == p.lastActiveAt

\* A narrowing that knows no domain rules and cuts the recent projects at 20.
narrowCandidatesWithoutDomain(tab, projects, now) ==
  LET SameHost(p) ==
        \/ \E i \in 1..Len(p.subprojects) : p.subprojects[i].signature.host = tab.host
        \/ \E i \in 1..Len(p.rules) :
             p.rules[i].type = "host" /\ p.rules[i].value = tab.host
      Recent(p) == now - p.lastActiveAt < 30 * 60 * 1000
      sameHostProjects == FilterSeq(projects, SameHost)
      recentProjects   == Take(SortDescBy(FilterSeq(projects, Recent), ProjectLastActive), 20)
  IN  IF Len(sameHostProjects) > 0 THEN sameHostProjects
      ELSE IF Len(recentProjects) > 0 THEN recentProjects
      ELSE Take(projects, 20)

narrowCandidates(tab, projects, now) ==
  LET SameHost(p) ==
        \/ \E i \in 1..Len(p.subprojects) : p.subprojects[i].signature.host = tab.host
        \/ \E i \in 1..Len(p.rules) :
             p.rules[i].type = "host" /\ p.rules[i].value = tab.host
      SameDomain(p) ==
        \E i \in 1..Len(p.rules) :
          p.rules[i].type = "domain" /\ p.rules[i].value = RegistrableDomain(tab.host)
      Recent(p) == now - p.lastActiveAt < 30 * 60 * 1000
      sameHostProjects   == FilterSeq(projects, SameHost)
      sameDomainProjects == FilterSeq(projects, SameDomain)
      recentProjects     == Take(SortDescBy(FilterSeq(projects, Recent), ProjectLastActive), 15)
  IN  IF Len(sameHostProjects) > 0 THEN sameHostProjects
      ELSE IF Len(sameDomainProjects) > 0 THEN sameDomainProjects
      ELSE IF Len(recentProjects) > 0 THEN recentProjects
      ELSE Take(projects, 20)

\* <<>> for null, else <<ScoringResult>>.
getBestMatch(tab, projects, context, now) ==
  LET results == scoreAllProjects(tab, narrowCandidates(tab, projects, now), context, now)
  IN  IF results = <<>> THEN <<>> ELSE <<results[1]>>

(***************************************************************************)
(* The world of the model                                                  *)
(***************************************************************************)
\* Bounds: events dispatched to the service worker, and clock advances.
MaxEvents == 2

MaxTicks == 1

\* The browser's tab ids, all in window 1 (an id is not used again once its tab is
\* closed), and the handlers that can be in flight.
TabIds == {1, 2, 3}

WindowOf(t) == 1

Slots == {1, 2}

\* Pages a tab can show: chrome.tabs.Tab.url and .title.
GithubIssues == [url |-> "https://github.com/org/repo/issues", title |-> "Issues - org/repo"]

GithubWiki == [url |-> "https://github.com/org/wiki", title |-> "Wiki"]

ExampleIssues == [url |-> "https://www.example.net/", title |-> "Issues"]

\* A url that new URL() rejects.
BrokenPage == [url |-> "http://", title |-> "Untitled"]

\* A browser page and a tab that has no url (yet).
ChromeSettings == [url |-> "chrome://settings", title |-> "Settings"]

NewTab == [url |-> "", title |-> "New Tab"]

Pages == {GithubIssues, GithubWiki, ExampleIssues, BrokenPage, ChromeSettings, NewTab}

\* Clock advances between two steps, in milliseconds: 5 and 30 minutes.
TickSteps == {5 * 60000, 30 * 60000}

\* Date.now() when the service worker is installed (an offset, not the epoch).
StartTime == 1000

VARIABLES
  clock,           \* Date.now()
  ticks,           \* clock advances so far
  events,          \* events dispatched so far
  browser,         \* chrome's tabs: TabIds -> <<>> (not open) or <<page>>
  opened,          \* the tab ids chrome has used so far
  tabs,            \* object store 'tabs': tabId -> TabMeta
  projects,        \* object store 'projects': projectId -> Project
  nextId,          \* stands for the Date.now()/Math.random() suffix of new ids
  activeContexts,  \* ContextTracker.activeContexts: windowId -> ActiveContext
  lastActivation,  \* sw.ts lastActivation: <<>> (null) or <<[tabId, timestamp]>>
  handlers,        \* the listeners in flight, each suspended at an await
  lastMessage,     \* the last message handed to chrome.runtime.sendMessage
  errors,          \* console.error calls of the listeners' catch blocks so far
  call             \* a library function applied on its own: its arguments and result

vars == <<clock, ticks, events, browser, opened, tabs, projects, nextId, activeContexts,
          lastActivation, handlers, lastMessage, errors, call>>

(***************************************************************************)
(* Object stores (storage/db.ts)                                           *)
(***************************************************************************)
\* objectStore.put(value): insert or overwrite by key.
StorePut(store, key, value) ==
  [k \in DOMAIN store \cup {key} |-> IF k = key THEN value ELSE store[k]]

\* objectStore.delete(key)
StoreDelete(store, key) == [k \in DOMAIN store \ {key} |-> store[k]]

\* objectStore.get(key): request.result || null, as <<>> or <<value>>.
StoreGet(store, key) == IF key \in DOMAIN store THEN <<store[key]>> ELSE <<>>

\* getAll(): the records in key order.
RECURSIVE StoreGetAll(_, _)
StoreGetAll(store, keys) ==
  IF keys = {} THEN <<>>
  ELSE LET k == CHOOSE x \in keys : \A y \in keys : x <= y
       IN  <<store[k]>> \o StoreGetAll(store, keys \ {k})

getAllProjects(store) == StoreGetAll(store, DOMAIN store)

getTabsByWindow(store, windowId) ==
  StoreGetAll(store, {t \in DOMAIN store : store[t].windowId = windowId})

\* index('projectId').getAll(projectId)
getTabsByProject(store, projectId) ==
  StoreGetAll(store, {t \in DOMAIN store : store[t].projectId = projectId})

(***************************************************************************)
(* core.ts: tab metadata                                                   *)
(***************************************************************************)
IsChromeUrl(url) == StartsWith(url, "chrome://")

\* A guard that only asks for a url.
SkippedWithoutUrl(page) == page.url = ""

\* The !tab.url || tab.url.startsWith('chrome://') guard of the listeners.
Skipped(page) == page.url = "" \/ IsChromeUrl(page.url)

\* The TabMeta upsertTabMeta builds; projectId/subprojectId 0 and pageSignals <<>>
\* stand for undefined.  existing: <<>> or <<TabMeta>>.  Requires parseUrl to succeed.
upsertTabMeta(tabId, page, existing, now) ==
  LET parsed == parseUrl(page.url)[1]
      old    == existing[1]
      has    == existing # <<>>
  IN  [tabId            |-> tabId,
       windowId         |-> WindowOf(tabId),
       url              |-> page.url,
       title            |-> page.title,
       host             |-> parsed.host,
       pathTokens       |-> parsed.pathTokens,
       pageSignals      |-> IF has THEN old.pageSignals ELSE <<>>,
       createdAt        |-> IF has /\ old.createdAt # 0 THEN old.createdAt ELSE now,
       lastActiveAt     |-> IF has /\ old.lastActiveAt # 0 THEN old.lastActiveAt ELSE now,
       activeScore      |-> IF has THEN old.activeScore ELSE 0,
       projectId        |-> IF has THEN old.projectId ELSE 0,
       subprojectId     |-> IF has THEN old.subprojectId ELSE 0,
       manuallyAssigned |-> IF has THEN old.manuallyAssigned ELSE FALSE]

\* core.ts removeTab: db.deleteTab(tabId).
removeTab(store, tabId) == StoreDelete(store, tabId)

(***************************************************************************)
(* Handlers in flight                                                      *)
(***************************************************************************)
Idle ==
  [kind |-> "idle", pc |-> "idle", tabId |-> 0, windowId |-> 0, activatedAt |-> 0,
   now |-> 0,
   dwell |-> 0, page |-> <<>>, existing |-> <<>>, tab |-> <<>>, projects |-> <<>>,
   windowTabs |-> <<>>, best |-> <<>>, project |-> <<>>, count |-> 0,
   action |-> <<>>, queue |-> <<>>]

FreeSlot(i) == handlers[i].pc = "idle" /\ \A j \in Slots : j < i => handlers[j].pc # "idle"

CanDispatch == events < MaxEvents

NoMessage == [type |-> "none", tabId |-> 0, windowId |-> 0, assignment |-> <<>>]

\* broadcastUpdate(message): fire and forget.
broadcastUpdate(type, tabId, windowId, assignment) ==
  lastMessage' = [type |-> type, tabId |-> tabId, windowId |-> windowId,
                  assignment |-> assignment]

\* Time passes.
Tick ==
  /\ ticks < MaxTicks
  /\ \E d \in TickSteps : clock' = clock + d
  /\ ticks' = ticks + 1
  /\ UNCHANGED <<call, errors, events, browser, opened, tabs, projects, nextId,
                 activeContexts, lastActivation, handlers, lastMessage>>

\* upsertTabMeta after db.getTab has answered: parse, build, db.putTab.  The
\* onActivated listener goes on to assignTabToProject; onUpdated broadcasts.
UpsertPut(i) ==
  LET h == handlers[i]
      page == h.page[1]
  IN  /\ h.pc = "upsert"
      /\ IF parseUrl(page.url) = <<>>
         THEN \* throw new Error('Invalid tab URL'), caught and logged by the listener
              /\ handlers' = [handlers EXCEPT ![i] = Idle]
              /\ errors' = errors + 1
              /\ UNCHANGED <<tabs, lastMessage>>
         ELSE LET meta == upsertTabMeta(h.tabId, page, h.existing, clock)
              IN  /\ tabs' = StorePut(tabs, h.tabId, meta)
                  /\ UNCHANGED errors
                  /\ IF h.kind = "activated"
                     THEN /\ handlers' = [handlers EXCEPT ![i] =
                                [h EXCEPT !.pc = "assign", !.tab = <<meta>>,
                                          !.existing = <<>>, !.page = <<>>]]
                          /\ UNCHANGED lastMessage
                     ELSE /\ handlers' = [handlers EXCEPT ![i] = Idle]
                          /\ IF h.kind = "updated"
                             THEN broadcastUpdate("TAB_UPDATED", h.tabId, 0, <<>>)
                             ELSE UNCHANGED lastMessage
      /\ UNCHANGED <<call, clock, ticks, events, browser, opened, projects, nextId,
                     activeContexts, lastActivation>>

\* chrome.tabs.onUpdated: the tab shows another page.
TabUpdated(i, t, page) ==
  /\ CanDispatch /\ FreeSlot(i)
  /\ browser[t] # <<>> /\ browser[t][1] # page
  /\ browser' = [browser EXCEPT ![t] = <<page>>]
  /\ UNCHANGED opened
  /\ events' = events + 1
  /\ handlers' = [handlers EXCEPT ![i] =
        IF Skipped(page) THEN Idle
        ELSE [Idle EXCEPT !.kind = "updated", !.pc = "upsert", !.tabId = t,
                          !.page = <<page>>, !.existing = StoreGet(tabs, t)]]
  /\ UNCHANGED <<call, errors, clock, ticks, tabs, projects, nextId, activeContexts, lastActivation,
                 lastMessage>>

\* chrome.tabs.onCreated: a tab opens.
TabCreated(i, t, page) ==
  /\ CanDispatch /\ FreeSlot(i)
  /\ t \notin opened
  /\ browser' = [browser EXCEPT ![t] = <<page>>]
  /\ opened' = opened \cup {t}
  /\ events' = events + 1
  /\ handlers' = [handlers EXCEPT ![i] =
        IF Skipped(page) THEN Idle
        ELSE [Idle EXCEPT !.kind = "created", !.pc = "upsert", !.tabId = t,
                          !.page = <<page>>, !.existing = StoreGet(tabs, t)]]
  /\ UNCHANGED <<call, errors, clock, ticks, tabs, projects, nextId, activeContexts, lastActivation,
                 lastMessage>>

\* A tab-removed listener that also drops the project the tab was in.
TabRemovedWithProject(t) ==
  /\ CanDispatch
  /\ browser[t] # <<>>
  /\ browser' = [browser EXCEPT ![t] = <<>>]
  /\ UNCHANGED opened
  /\ events' = events + 1
  /\ tabs' = removeTab(tabs, t)
  /\ projects' = IF t \in DOMAIN tabs THEN StoreDelete(projects, tabs[t].projectId)
                 ELSE projects
  /\ broadcastUpdate("TAB_UPDATED", t, 0, <<>>)
  /\ UNCHANGED <<call, errors, clock, ticks, nextId, activeContexts, lastActivation, handlers>>

\* chrome.tabs.onRemoved: the tab closes; removeTab, then the broadcast.
TabRemoved(t) ==
  /\ CanDispatch
  /\ browser[t] # <<>>
  /\ browser' = [browser EXCEPT ![t] = <<>>]
  /\ UNCHANGED opened
  /\ events' = events + 1
  /\ tabs' = removeTab(tabs, t)
  /\ broadcastUpdate("TAB_UPDATED", t, 0, <<>>)
  /\ UNCHANGED <<call, errors, clock, ticks, projects, nextId, activeContexts, lastActivation,
                 handlers>>

(***************************************************************************)
(* classifier/context.ts                                                   *)
(***************************************************************************)
CONTEXT_WINDOW_MS == 30 * 60 * 1000

EntryWeight(entry) == entry.weight

\* A RecentTabActivity whose dwell score is not capped at one minute.
RecentActivityUncapped(tab, now) ==
  LET timeSinceActive == now - tab.lastActiveAt
      recencyScore    == 1000 - (timeSinceActive \div (CONTEXT_WINDOW_MS \div 1000))
      dwellScore      == tab.activeScore \div 60
  IN  [tabId        |-> tab.tabId,
       projectId    |-> tab.projectId,
       subprojectId |-> tab.subprojectId,
       lastActiveAt |-> tab.lastActiveAt,
       dwellTime    |-> tab.activeScore,
       weight       |-> (700 * dwellScore + 300 * recencyScore) \div 1000]

\* The RecentTabActivity of one tab; weight in thousandths:
\* 0.7 * min(1, activeScore / 60000) + 0.3 * (1 - timeSinceActive / CONTEXT_WINDOW_MS)
RecentActivity(tab, now) ==
  LET timeSinceActive == now - tab.lastActiveAt
      recencyScore    == 1000 - (timeSinceActive \div (CONTEXT_WINDOW_MS \div 1000))
      dwellScore      == Min(1000, tab.activeScore \div 60)
  IN  [tabId        |-> tab.tabId,
       projectId    |-> tab.projectId,
       subprojectId |-> tab.subprojectId,
       lastActiveAt |-> tab.lastActiveAt,
       dwellTime    |-> tab.activeScore,
       weight       |-> (700 * dwellScore + 300 * recencyScore) \div 1000]

\* The ActiveContext updateContext builds from the tabs db.getTabsByWindow returned.
updateContext(windowId, activatedTab, windowTabs, now) ==
  LET InWindow(tab) == now - tab.lastActiveAt < CONTEXT_WINDOW_MS
      kept == FilterSeq(windowTabs, InWindow)
  IN  [windowId           |-> windowId,
       activeProjectId    |-> activatedTab.projectId,
       activeSubprojectId |-> activatedTab.subprojectId,
       recentTabs         |-> SortDescBy([i \in 1..Len(kept) |-> RecentActivity(kept[i], now)],
                                         EntryWeight),
       computedAt         |-> now]

\* A cache that still answers at an age of exactly 5000 ms.
getContextAtFiveSeconds(contexts, windowId, now) ==
  IF windowId \in DOMAIN contexts /\ now - contexts[windowId].computedAt <= 5000
  THEN <<contexts[windowId]>>
  ELSE <<>>

\* <<>> for undefined.
getContext(contexts, windowId, now) ==
  IF windowId \in DOMAIN contexts /\ now - contexts[windowId].computedAt < 5000
  THEN <<contexts[windowId]>>
  ELSE <<>>

(***************************************************************************)
(* core.ts: assignment                                                     *)
(***************************************************************************)
COLORS == <<"#ef4444", "#f97316", "#f59e0b", "#84cc16", "#10b981",
            "#06b6d4", "#3b82f6", "#6366f1", "#8b5cf6", "#ec4899">>

\* The host taken as it is.
StripWwwNot(host) == host

\* host.replace(/^www\./, '')
StripWww(host) == IF StartsWith(host, "www.") THEN SubSeq(host, 5, Len(host)) ELSE host

\* The Project createProjectForTab builds.  now: Date.now() at its start; count: the
\* length of db.getAllProjects(); projectId, subprojectId: the fresh ids.
createProjectForTab(tab, now, count, projectId, subprojectId) ==
  LET tokens   == tokenize(tab.host, tab.pathTokens, tab.title, "", "")
      centroid == createCentroid(<<tokens>>, <<>>)
      prefix   == Join(Take(tab.pathTokens, 2), "/")
      subproject ==
        [subprojectId |-> subprojectId,
         name         |-> IF prefix # "" THEN prefix ELSE tab.host,
         signature    |-> [host |-> tab.host, pathPrefix |-> prefix,
                           tokenCentroid |-> centroid],
         rules        |-> <<>>,
         createdAt    |-> now,
         lastActiveAt |-> now]
  IN  [projectId    |-> projectId,
       name         |-> StripWww(tab.host),
       color        |-> COLORS[(count % Len(COLORS)) + 1],
       pinned       |-> FALSE,
       locked       |-> FALSE,
       createdAt    |-> now,
       lastActiveAt |-> now,
       activeScore  |-> 0,
       centroid     |-> centroid,
       rules        |-> <<[type |-> "host", value |-> tab.host, weight |-> UnitWeight]>>,
       subprojects  |-> <<subproject>>]

\* A feedback write that opens a subproject for a path prefix the project has none for.
updateProjectCentroidOpeningSubproject(project, tab, now) ==
  LET tokens == tokenize(tab.host, tab.pathTokens, tab.title, SignalH1(tab), "")
      subs   == project.subprojects
      prefix == getPathPrefix(tab.pathTokens, 2)
      known  == \E i \in 1..Len(subs) : subs[i].signature.pathPrefix = prefix
  IN  [project EXCEPT
         !.lastActiveAt = now,
         !.centroid = updateCentroid(project.centroid, tokens, ProjectUpdateWeight),
         !.subprojects =
            IF known \/ subs = <<>> THEN subs
            ELSE Append(subs, [subs[1] EXCEPT !.signature.pathPrefix = prefix,
                                              !.name = prefix])]

\* project.lastActiveAt = Date.now(), then updateProjectCentroid(project, tab): the
\* project that is put.
updateProjectCentroid(project, tab, now) ==
  LET tokens == tokenize(tab.host, tab.pathTokens, tab.title, SignalH1(tab), "")
      subs   == project.subprojects
      found  == {i \in 1..Len(subs) : subs[i].subprojectId = tab.subprojectId}
      first  == CHOOSE i \in found : \A j \in found : i <= j
  IN  [project EXCEPT
         !.lastActiveAt = now,
         !.centroid = updateCentroid(project.centroid, tokens, ProjectUpdateWeight),
         !.subprojects =
            IF found = {} THEN subs
            ELSE [subs EXCEPT ![first] =
                   [subs[first] EXCEPT
                      !.signature.tokenCentroid =
                         updateCentroid(subs[first].signature.tokenCentroid, tokens,
                                        SubprojectUpdateWeight),
                      !.lastActiveAt = now]]]

\* A manual check that asks for the subproject instead of the project.
IsManualBySubproject(tab) == tab.manuallyAssigned /\ tab.subprojectId # 0

\* tab.manuallyAssigned && tab.projectId
IsManual(tab) == tab.manuallyAssigned /\ tab.projectId # 0

\* Any match that passed minThreshold is taken.
IsAssignableAny(best) == best # <<>>

\* bestMatch && bestMatch.score > 0.5
IsAssignable(best) == best # <<>> /\ best[1].score > 5000

\* The method decided at the assignment threshold instead of 0.8.
MethodForAtHalf(score) == IF score > 5000 THEN "deterministic" ELSE "semantic"

\* bestMatch.score > 0.8 ? 'deterministic' : 'semantic'
MethodFor(score) == IF score > 8000 THEN "deterministic" ELSE "semantic"

Assignment(tabId, projectId, subprojectId, confidence, method) ==
  [tabId |-> tabId, projectId |-> projectId, subprojectId |-> subprojectId,
   confidence |-> confidence, method |-> method]

\* updateTabActivity once db.getTab has answered with tab.
updateTabActivity(tab, dwellTime, now) ==
  [tab EXCEPT !.lastActiveAt = now, !.activeScore = tab.activeScore + dwellTime]

SetHandler(i, h) == handlers' = [handlers EXCEPT ![i] = h]

Finish(i) == handlers' = [handlers EXCEPT ![i] = Idle]

\* chrome.tabs.onActivated, up to its first request: db.getTab of the tab left
\* (updateTabActivity), or chrome.tabs.get when there is no dwell time to credit.
TabActivated(i, t) ==
  /\ CanDispatch /\ FreeSlot(i)
  /\ browser[t] # <<>>
  /\ events' = events + 1
  /\ IF lastActivation # <<>> /\ lastActivation[1].tabId # t
     THEN /\ SetHandler(i, [Idle EXCEPT
               !.kind = "activated", !.pc = "dwell", !.tabId = t,
               !.windowId = WindowOf(t), !.activatedAt = clock, !.now = clock,
               !.dwell = clock - lastActivation[1].timestamp,
               !.existing = StoreGet(tabs, lastActivation[1].tabId)])
          /\ UNCHANGED lastActivation
     ELSE /\ lastActivation' = <<[tabId |-> t, timestamp |-> clock]>>
          /\ SetHandler(i, [Idle EXCEPT
               !.kind = "activated", !.pc = "got_tab", !.tabId = t,
               !.windowId = WindowOf(t), !.activatedAt = clock, !.now = clock,
               !.page = browser[t]])
  /\ UNCHANGED <<call, errors, clock, ticks, browser, opened, tabs, projects, nextId, activeContexts,
                 lastMessage>>

\* updateTabActivity after db.getTab: credit the dwell time and db.putTab; with no
\* record the listener goes on at once.
DwellCredit(i) ==
  LET h == handlers[i]
  IN  /\ h.pc = "dwell"
      /\ IF h.existing # <<>>
         THEN /\ tabs' = StorePut(tabs, h.existing[1].tabId,
                                  updateTabActivity(h.existing[1], h.dwell, clock))
              /\ SetHandler(i, [h EXCEPT !.pc = "dwell_put", !.existing = <<>>])
              /\ UNCHANGED lastActivation
         ELSE /\ lastActivation' = <<[tabId |-> h.tabId, timestamp |-> h.now]>>
              /\ SetHandler(i, [h EXCEPT !.pc = "got_tab", !.page = browser[h.tabId]])
              /\ UNCHANGED tabs
      /\ UNCHANGED <<call, errors, clock, ticks, events, browser, opened, projects, nextId, activeContexts,
                     lastMessage>>

\* After updateTabActivity: lastActivation = { tabId, timestamp: now } and
\* chrome.tabs.get(tabId).
DwellDone(i) ==
  LET h == handlers[i]
  IN  /\ h.pc = "dwell_put"
      /\ lastActivation' = <<[tabId |-> h.tabId, timestamp |-> h.now]>>
      /\ SetHandler(i, [h EXCEPT !.pc = "got_tab", !.page = browser[h.tabId]])
      /\ UNCHANGED <<call, errors, clock, ticks, events, browser, opened, tabs, projects, nextId,
                     activeContexts, lastMessage>>

\* chrome.tabs.get has answered (it rejects for a closed tab): the url guard, then
\* upsertTabMeta up to db.getTab.
GotTab(i) ==
  LET h == handlers[i]
  IN  /\ h.pc = "got_tab"
      /\ IF h.page = <<>> \/ Skipped(h.page[1])
         THEN Finish(i)
         ELSE SetHandler(i, [h EXCEPT !.pc = "upsert", !.existing = StoreGet(tabs, h.tabId)])
      /\ UNCHANGED <<call, errors, clock, ticks, events, browser, opened, tabs, projects, nextId,
                     activeContexts, lastActivation, lastMessage>>

\* assignTabToProject up to db.getAllProjects; a manual tab is answered at once.
AssignStart(i) ==
  LET h == handlers[i]
      tab == h.tab[1]
  IN  /\ h.pc = "assign"
      /\ IF IsManual(tab)
         THEN /\ Finish(i)
              /\ broadcastUpdate("CONTEXT_UPDATED", 0, h.windowId,
                   <<Assignment(tab.tabId, tab.projectId, tab.subprojectId, 10000, "manual")>>)
         ELSE /\ SetHandler(i, [h EXCEPT !.pc = "have_projects",
                                         !.projects = getAllProjects(projects)])
              /\ UNCHANGED lastMessage
      /\ UNCHANGED <<call, errors, clock, ticks, events, browser, opened, tabs, projects, nextId,
                     activeContexts, lastActivation>>

\* db.getAllProjects has answered.  No project: createProjectForTab up to its own
\* db.getAllProjects.  Else contextTracker.updateContext up to db.getTabsByWindow.
HaveProjects(i) ==
  LET h == handlers[i]
  IN  /\ h.pc = "have_projects"
      /\ IF Len(h.projects) = 0
         THEN SetHandler(i, [h EXCEPT !.pc = "create_put", !.now = clock,
                                      !.count = Cardinality(DOMAIN projects)])
         ELSE SetHandler(i, [h EXCEPT !.pc = "have_ctx", !.now = clock,
                                      !.windowTabs = getTabsByWindow(tabs, h.windowId)])
      /\ UNCHANGED <<call, errors, clock, ticks, events, browser, opened, tabs, projects, nextId,
                     activeContexts, lastActivation, lastMessage>>

\* db.getTabsByWindow has answered: the context is cached, the candidates are scored,
\* and either the match is stored on the tab (db.putTab) or createProjectForTab
\* starts.
Decide(i) ==
  LET h == handlers[i]
      tab == h.tab[1]
      context == updateContext(h.windowId, tab, h.windowTabs, h.now)
      best == getBestMatch(tab, h.projects, <<context>>, clock)
      assigned == [tab EXCEPT !.projectId = best[1].projectId,
                              !.subprojectId = best[1].subprojectId]
  IN  /\ h.pc = "have_ctx"
      /\ activeContexts' = StorePut(activeContexts, h.windowId, context)
      /\ IF IsAssignable(best)
         THEN /\ tabs' = StorePut(tabs, tab.tabId, assigned)
              /\ SetHandler(i, [h EXCEPT !.pc = "commit_get", !.tab = <<assigned>>,
                                         !.best = best, !.projects = <<>>,
                                         !.windowTabs = <<>>])
         ELSE /\ SetHandler(i, [h EXCEPT !.pc = "create_put", !.now = clock,
                                         !.count = Cardinality(DOMAIN projects),
                                         !.projects = <<>>, !.windowTabs = <<>>])
              /\ UNCHANGED tabs
      /\ UNCHANGED <<call, errors, clock, ticks, events, browser, opened, projects, nextId, lastActivation,
                     lastMessage>>

\* db.putTab has answered: db.getProject(bestMatch.projectId).
CommitGet(i) ==
  LET h == handlers[i]
  IN  /\ h.pc = "commit_get"
      /\ SetHandler(i, [h EXCEPT !.pc = "commit_put",
                                 !.project = StoreGet(projects, h.best[1].projectId)])
      /\ UNCHANGED <<call, errors, clock, ticks, events, browser, opened, tabs, projects, nextId,
                     activeContexts, lastActivation, lastMessage>>

\* db.getProject has answered: the feedback write (db.putProject) when the project
\* is there, then the assignment is returned and broadcast.
CommitPut(i) ==
  LET h == handlers[i]
      tab == h.tab[1]
      best == h.best[1]
  IN  /\ h.pc = "commit_put"
      /\ IF h.project # <<>>
         THEN projects' = StorePut(projects, h.project[1].projectId,
                                   updateProjectCentroid(h.project[1], tab, clock))
         ELSE UNCHANGED projects
      /\ Finish(i)
      /\ broadcastUpdate("CONTEXT_UPDATED", 0, h.windowId,
           <<Assignment(tab.tabId, best.projectId, best.subprojectId, best.score,
                        MethodFor(best.score))>>)
      /\ UNCHANGED <<call, errors, clock, ticks, events, browser, opened, tabs, nextId, activeContexts,
                     lastActivation>>

\* A failed feedback write that takes the assignment off the tab again.
FeedbackFailsWithRollback(i) ==
  LET h == handlers[i]
      tab == h.tab[1]
  IN  /\ h.pc = "commit_put"
      /\ h.project # <<>>
      /\ Finish(i)
      /\ errors' = errors + 1
      /\ tabs' = StorePut(tabs, tab.tabId, [tab EXCEPT !.projectId = 0, !.subprojectId = 0])
      /\ UNCHANGED <<call, clock, ticks, events, browser, opened, projects, nextId,
                     activeContexts, lastActivation, lastMessage>>

\* db.putProject of the feedback write rejects: updateProjectCentroid and
\* assignTabToProject throw, the listener's catch block logs the error, nothing is
\* broadcast.
FeedbackFails(i) ==
  LET h == handlers[i]
  IN  /\ h.pc = "commit_put"
      /\ h.project # <<>>
      /\ Finish(i)
      /\ errors' = errors + 1
      /\ UNCHANGED <<call, clock, ticks, events, browser, opened, tabs, projects, nextId,
                     activeContexts, lastActivation, lastMessage>>

\* createProjectForTab after its db.getAllProjects: build the project, db.putProject.
CreatePut(i) ==
  LET h == handlers[i]
      project == createProjectForTab(h.tab[1], h.now, h.count, nextId, nextId + 1)
  IN  /\ h.pc = "create_put"
      /\ projects' = StorePut(projects, project.projectId, project)
      /\ nextId' = nextId + 2
      /\ SetHandler(i, [h EXCEPT !.pc = "create_tab", !.project = <<project>>])
      /\ UNCHANGED <<call, errors, clock, ticks, events, browser, opened, tabs, activeContexts,
                     lastActivation, lastMessage>>

\* The new project is stored on the tab (db.putTab); the assignment is returned and
\* broadcast.
CreateTab(i) ==
  LET h == handlers[i]
      project == h.project[1]
      assigned == [h.tab[1] EXCEPT
                     !.projectId = project.projectId,
                     !.subprojectId = project.subprojects[1].subprojectId]
  IN  /\ h.pc = "create_tab"
      /\ tabs' = StorePut(tabs, assigned.tabId, assigned)
      /\ Finish(i)
      /\ broadcastUpdate("CONTEXT_UPDATED", 0, h.windowId,
           <<Assignment(assigned.tabId, project.projectId, assigned.subprojectId,
                        10000, "default")>>)
      /\ UNCHANGED <<call, errors, clock, ticks, events, browser, opened, projects, nextId, activeContexts,
                     lastActivation>>

(***************************************************************************)
(* sw.ts: runtime messages                                                 *)
(***************************************************************************)
\* What the content script extracts from a page.
Signals == {[h1 |-> "Org Repo", metaDescription |-> "Issue tracker"]}

\* PAGE_SIGNALS from the content script of tab t, up to db.getTab.
PageSignals(i, t, signals) ==
  /\ CanDispatch /\ FreeSlot(i)
  /\ browser[t] # <<>> /\ ~Skipped(browser[t][1])
  /\ events' = events + 1
  /\ SetHandler(i, [Idle EXCEPT !.kind = "signals", !.pc = "signals_put", !.tabId = t,
                                !.existing = StoreGet(tabs, t), !.action = <<signals>>])
  /\ UNCHANGED <<call, errors, clock, ticks, browser, opened, tabs, projects, nextId, activeContexts,
                 lastActivation, lastMessage>>

SignalsPut(i) ==
  LET h == handlers[i]
  IN  /\ h.pc = "signals_put"
      /\ IF h.existing # <<>>
         THEN tabs' = StorePut(tabs, h.tabId, [h.existing[1] EXCEPT !.pageSignals = h.action])
         ELSE UNCHANGED tabs
      /\ Finish(i)
      /\ UNCHANGED <<call, errors, clock, ticks, events, browser, opened, projects, nextId, activeContexts,
                     lastActivation, lastMessage>>

\* UI_ACTION move_tab_to_project, up to db.getTab.
MoveTab(i, t, p, sp) ==
  /\ CanDispatch /\ FreeSlot(i)
  /\ events' = events + 1
  /\ SetHandler(i, [Idle EXCEPT !.kind = "move_tab_to_project", !.pc = "move_put",
                                !.tabId = t, !.existing = StoreGet(tabs, t),
                                !.action = <<[projectId |-> p, subprojectId |-> sp]>>])
  /\ UNCHANGED <<call, errors, clock, ticks, browser, opened, tabs, projects, nextId, activeContexts,
                 lastActivation, lastMessage>>

MovePut(i) ==
  LET h == handlers[i]
  IN  /\ h.pc = "move_put"
      /\ IF h.existing # <<>>
         THEN tabs' = StorePut(tabs, h.tabId,
                        [h.existing[1] EXCEPT !.projectId = h.action[1].projectId,
                                              !.subprojectId = h.action[1].subprojectId,
                                              !.manuallyAssigned = TRUE])
         ELSE UNCHANGED tabs
      /\ Finish(i)
      /\ broadcastUpdate("TAB_UPDATED", 0, 0, <<>>)
      /\ UNCHANGED <<call, errors, clock, ticks, events, browser, opened, projects, nextId, activeContexts,
                     lastActivation>>

EditKinds == {"rename_project", "pin_project", "lock_project"}

\* The project an edit writes back.
EditedProject(kind, project) ==
  IF kind = "rename_project" THEN [project EXCEPT !.name = "Renamed"]
  ELSE IF kind = "pin_project" THEN [project EXCEPT !.pinned = ~project.pinned]
  ELSE [project EXCEPT !.locked = ~project.locked]

\* UI_ACTION rename_project / pin_project / lock_project, up to db.getProject.
EditProject(i, kind, p) ==
  /\ CanDispatch /\ FreeSlot(i)
  /\ events' = events + 1
  /\ SetHandler(i, [Idle EXCEPT !.kind = kind, !.pc = "edit_put",
                                !.project = StoreGet(projects, p)])
  /\ UNCHANGED <<call, errors, clock, ticks, browser, opened, tabs, projects, nextId, activeContexts,
                 lastActivation, lastMessage>>

EditPut(i) ==
  LET h == handlers[i]
  IN  /\ h.pc = "edit_put"
      /\ IF h.project # <<>>
         THEN projects' = StorePut(projects, h.project[1].projectId,
                                   EditedProject(h.kind, h.project[1]))
         ELSE UNCHANGED projects
      /\ Finish(i)
      /\ broadcastUpdate("TAB_UPDATED", 0, 0, <<>>)
      /\ UNCHANGED <<call, errors, clock, ticks, events, browser, opened, tabs, nextId, activeContexts,
                     lastActivation>>

\* UI_ACTION delete_project: db.deleteProject(projectId).
DeleteProject(i, p) ==
  /\ CanDispatch /\ FreeSlot(i)
  /\ events' = events + 1
  /\ projects' = StoreDelete(projects, p)
  /\ SetHandler(i, [Idle EXCEPT !.kind = "delete_project", !.pc = "delete_tabs",
                                !.action = <<[projectId |-> p, subprojectId |-> 0]>>])
  /\ UNCHANGED <<call, errors, clock, ticks, browser, opened, tabs, nextId, activeContexts, lastActivation,
                 lastMessage>>

\* db.getTabsByProject(projectId)
DeleteTabs(i) ==
  LET h == handlers[i]
  IN  /\ h.pc = "delete_tabs"
      /\ SetHandler(i, [h EXCEPT !.pc = "delete_loop",
                                 !.queue = getTabsByProject(tabs, h.action[1].projectId)])
      /\ UNCHANGED <<call, errors, clock, ticks, events, browser, opened, tabs, projects, nextId,
                     activeContexts, lastActivation, lastMessage>>

\* One turn of the loop that detaches the project's tabs (db.putTab each); after the
\* last one the action is broadcast.
DeleteLoop(i) ==
  LET h == handlers[i]
  IN  /\ h.pc = "delete_loop"
      /\ IF h.queue = <<>>
         THEN UNCHANGED tabs
         ELSE tabs' = StorePut(tabs, Head(h.queue).tabId,
                        [Head(h.queue) EXCEPT !.projectId = 0, !.subprojectId = 0])
      /\ IF Len(h.queue) <= 1
         THEN Finish(i) /\ broadcastUpdate("TAB_UPDATED", 0, 0, <<>>)
         ELSE SetHandler(i, [h EXCEPT !.queue = Tail(h.queue)]) /\ UNCHANGED lastMessage
      /\ UNCHANGED <<call, errors, clock, ticks, events, browser, opened, projects, nextId, activeContexts,
                     lastActivation>>

(***************************************************************************)
(* Start-up and the next-state relation                                    *)
(***************************************************************************)
\* What onInstalled leaves in the 'tabs' store: upsertTabMeta of every open tab that
\* passes the url guard and parses.
IndexedTabs(b, now) ==
  [t \in {x \in TabIds : b[x] # <<>> /\ ~Skipped(b[x][1]) /\ parseUrl(b[x][1].url) # <<>>}
     |-> upsertTabMeta(t, b[t][1], <<>>, now)]

\* The stores after tab 1, showing GithubIssues, was activated right after the
\* installation and got the first project (ids 1 and 2).
FirstProject ==
  createProjectForTab(upsertTabMeta(1, GithubIssues, <<>>, StartTime), StartTime, 0, 1, 2)

TabsAfterFirstProject(b) ==
  LET indexed == IndexedTabs([b EXCEPT ![1] = <<GithubIssues>>], StartTime)
  IN  [indexed EXCEPT ![1] = [indexed[1] EXCEPT !.projectId = 1, !.subprojectId = 2]]

\* Tabs 1 and 2 as given, tab 3 not opened yet.
TwoTabs(first, second) ==
  [t \in TabIds |-> IF t = 1 THEN first ELSE IF t = 2 THEN second ELSE <<>>]

\* No library function is being applied on its own.
NoCall == [op |-> "none"]

\* The service worker starts with its globals reset and the stores as they are:
\*   - at installation, with two tabs open on one host or on two hosts, or one of
\*     them on a browser page;
\*   - restarted `age` ms after tab 1 got the first project, with tab 1 still open
\*     or closed (its record removed) in the meantime.
Starts ==
  {[browser |-> TwoTabs(<<GithubIssues>>, <<page>>), age |-> 0, restarted |-> FALSE] :
     page \in {GithubWiki, ExampleIssues, ChromeSettings}}
  \cup
  {[browser |-> TwoTabs(<<GithubIssues>>, <<GithubWiki>>), age |-> 0, restarted |-> TRUE],
   [browser |-> TwoTabs(<<>>, <<ExampleIssues>>), age |-> 15 * 60000, restarted |-> TRUE],
   [browser |-> TwoTabs(<<GithubIssues>>, <<ExampleIssues>>), age |-> 30 * 60000,
    restarted |-> TRUE]}

Init ==
  \E start \in Starts :
    /\ clock = StartTime + start.age
    /\ ticks = 0
    /\ events = 0
    /\ browser = start.browser
    /\ opened = {1, 2}
    /\ tabs = IF ~start.restarted THEN IndexedTabs(start.browser, StartTime)
              ELSE IF start.browser[1] = <<>>
                   THEN removeTab(TabsAfterFirstProject(start.browser), 1)
                   ELSE TabsAfterFirstProject(start.browser)
    /\ projects = IF start.restarted THEN (1 :> FirstProject) ELSE <<>>
    /\ nextId = IF start.restarted THEN 3 ELSE 1
    /\ activeContexts = <<>>
    /\ lastActivation = <<>>
    /\ handlers = [i \in Slots |-> Idle]
    /\ lastMessage = NoMessage
    /\ errors = 0
    /\ call = NoCall

\* Steps of the listeners in flight.
Step(i) ==
  \/ UpsertPut(i)
  \/ DwellCredit(i)
  \/ DwellDone(i)
  \/ GotTab(i)
  \/ AssignStart(i)
  \/ HaveProjects(i)
  \/ Decide(i)
  \/ CommitGet(i)
  \/ CommitPut(i)
  \/ FeedbackFails(i)
  \/ CreatePut(i)
  \/ CreateTab(i)
  \/ SignalsPut(i)
  \/ MovePut(i)
  \/ EditPut(i)
  \/ DeleteTabs(i)
  \/ DeleteLoop(i)

Next ==
  \/ Tick
  \/ \E i \in Slots : Step(i)
  \/ \E i \in Slots, t \in TabIds : TabActivated(i, t)
  \/ \E i \in Slots, t \in TabIds, s \in Signals : PageSignals(i, t, s)
  \/ \E i \in Slots, t \in DOMAIN tabs, p \in DOMAIN projects :
       \E sp \in {0} \cup {projects[p].subprojects[k].subprojectId :
                              k \in 1..Len(projects[p].subprojects)} :
         MoveTab(i, t, p, sp)
  \/ \E i \in Slots, kind \in EditKinds, p \in DOMAIN projects : EditProject(i, kind, p)
  \/ \E i \in Slots, p \in DOMAIN projects : DeleteProject(i, p)
  \/ \E i \in Slots, t \in TabIds, page \in Pages : TabUpdated(i, t, page)
  \/ \E i \in Slots, t \in TabIds, page \in Pages : TabCreated(i, t, page)
  \/ \E t \in TabIds : TabRemoved(t)

Spec == Init /\ [][Next]_vars

(***************************************************************************)
(* Activations after a manual assignment whose project was deleted         *)
(***************************************************************************)
\* The stores after move_tab_to_project(tab 1, project 1) and delete_project(1) in
\* the restarted worker with tabs 1 and 2 on github.com: tab 1 keeps
\* manuallyAssigned, its projectId is cleared, the project is gone.
ManualThenDeleted ==
  /\ tabs = [TabsAfterFirstProject(TwoTabs(<<GithubIssues>>, <<GithubWiki>>)) EXCEPT
               ![1] = [@ EXCEPT !.projectId = 0, !.subprojectId = 0,
                                !.manuallyAssigned = TRUE]]
  /\ projects = <<>>
  /\ nextId = 3
  /\ handlers = [i \in Slots |-> Idle]

InitManual ==
  /\ ManualThenDeleted
  /\ clock = StartTime /\ ticks = 0 /\ events = 0
  /\ browser = TwoTabs(<<GithubIssues>>, <<GithubWiki>>) /\ opened = {1, 2}
  /\ activeContexts = <<>> /\ lastActivation = <<>>
  /\ lastMessage = NoMessage /\ errors = 0 /\ call = NoCall

\* Steps of the tab-activated listeners in flight.
StepActivated(i) ==
  \/ UpsertPut(i)
  \/ DwellCredit(i)
  \/ DwellDone(i)
  \/ GotTab(i)
  \/ AssignStart(i)
  \/ HaveProjects(i)
  \/ Decide(i)
  \/ CommitGet(i)
  \/ CommitPut(i)
  \/ FeedbackFails(i)
  \/ CreatePut(i)
  \/ CreateTab(i)

\* Only tab-activated events follow: no further move_tab_to_project.
NextManual ==
  \/ Tick
  \/ \E i \in Slots : StepActivated(i)
  \/ \E i \in Slots, t \in TabIds : TabActivated(i, t)

SpecManual == InitManual /\ [][NextManual]_vars

(***************************************************************************)
(* The matcher applied on its own                                          *)
(***************************************************************************)
\* The longest project list handed to the matcher.
MaxProjects == 21

ListLengths == {0, 1, 2, 3, 16, MaxProjects}

\* Date.now() of the calls: late enough for a project to be 30 minutes old.
CallTime == 2 * CONTEXT_WINDOW_MS

DocsPage == [url |-> "https://docs.github.com/en", title |-> "Docs"]

ExamplePost == [url |-> "https://www.example.net/blog/post", title |-> "Post"]

\* The tabs the matcher is asked about, as upsertTabMeta stores them.
CallTabs == {upsertTabMeta(1, page, <<>>, CallTime) : page \in {GithubWiki, DocsPage}}

\* What the k-th project of a list is:
\*   "github"   created for github.com/org/repo/issues, not used for 30 minutes;
\*   "hostrule" created for www.example.net/blog/post, with a host rule for the tab's host;
\*   "domain"   created for that page, with a domain rule for github.com;
\*   "recent"   created for that page, used 30 - k minutes ago;
\*   "stale"    created for that page, used exactly 30 minutes ago.
ProjectKinds == {"github", "hostrule", "domain", "recent", "stale"}

ProjectOfKind(kind, k, tab) ==
  LET stale == CallTime - CONTEXT_WINDOW_MS
      page  == IF kind = "github" THEN GithubIssues ELSE ExamplePost
      made  == createProjectForTab(upsertTabMeta(2, page, <<>>, stale), stale, k - 1,
                                   2 * k - 1, 2 * k)
  IN  CASE kind = "hostrule" ->
             [made EXCEPT !.rules = Append(@, [type |-> "host", value |-> tab.host,
                                               weight |-> UnitWeight])]
        [] kind = "domain" ->
             [made EXCEPT !.rules = Append(@, [type |-> "domain", value |-> "github.com",
                                               weight |-> UnitWeight])]
        [] kind = "recent" ->
             [made EXCEPT !.lastActiveAt = CallTime - (30 - k) * 60000]
        [] OTHER -> made

\* A list of n projects whose kinds repeat the pattern.
ProjectList(n, pattern, tab) ==
  [k \in 1..n |-> ProjectOfKind(pattern[((k - 1) % Len(pattern)) + 1], k, tab)]

KindPatterns ==
  {<<a>> : a \in ProjectKinds} \cup {<<a, b>> : a, b \in ProjectKinds}

\* matcher.narrowCandidates(tab, projects) is applied.
CallNarrowCandidates(tab, n, pattern) ==
  LET list == ProjectList(n, pattern, tab)
  IN  /\ call = NoCall
      /\ call' = [op |-> "narrowCandidates", tab |-> tab, projects |-> list,
                  now |-> clock, result |-> narrowCandidates(tab, list, clock)]
      /\ UNCHANGED <<clock, ticks, events, browser, opened, tabs, projects, nextId,
                     activeContexts, lastActivation, handlers, lastMessage, errors>>

\* The contexts the matcher is given: none, the context of a window whose activated
\* tab has no project, and the context of a window whose activated tab is in the
\* first project of the list.
CallContexts(tab) ==
  {<<>>,
   <<updateContext(1, tab, <<>>, CallTime)>>,
   <<updateContext(1, [tab EXCEPT !.projectId = 1, !.subprojectId = 2], <<>>, CallTime)>>}

\* matcher.scoreAllProjects(tab, projects, context) is applied.
CallScoreAllProjects(tab, n, pattern, context) ==
  LET list == ProjectList(n, pattern, tab)
  IN  /\ call = NoCall
      /\ call' = [op |-> "scoreAllProjects", tab |-> tab, projects |-> list,
                  context |-> context, now |-> clock,
                  result |-> scoreAllProjects(tab, list, context, clock)]
      /\ UNCHANGED <<clock, ticks, events, browser, opened, tabs, projects, nextId,
                     activeContexts, lastActivation, handlers, lastMessage, errors>>

\* matcher.getBestMatch(tab, projects, context) is applied.
CallGetBestMatch(tab, n, pattern, context) ==
  LET list == ProjectList(n, pattern, tab)
  IN  /\ call = NoCall
      /\ call' = [op |-> "getBestMatch", tab |-> tab, projects |-> list,
                  context |-> context, now |-> clock,
                  result |-> getBestMatch(tab, list, context, clock)]
      /\ UNCHANGED <<clock, ticks, events, browser, opened, tabs, projects, nextId,
                     activeContexts, lastActivation, handlers, lastMessage, errors>>

\* The function applied has returned to its caller.
CallReturns ==
  /\ call # NoCall
  /\ call' = NoCall
  /\ UNCHANGED <<clock, ticks, events, browser, opened, tabs, projects, nextId,
                 activeContexts, lastActivation, handlers, lastMessage, errors>>

\* Nothing else goes on while a library function is applied.
Quiet ==
  /\ ticks = 0 /\ events = 0
  /\ browser = [t \in TabIds |-> <<>>] /\ opened = {}
  /\ tabs = <<>> /\ projects = <<>> /\ nextId = 1
  /\ activeContexts = <<>> /\ lastActivation = <<>>
  /\ handlers = [i \in Slots |-> Idle]
  /\ lastMessage = NoMessage /\ errors = 0

InitMatcher == Quiet /\ clock = CallTime /\ call = NoCall

NextMatcher ==
  \/ CallReturns
  \/ \E tab \in CallTabs, n \in ListLengths, pattern \in KindPatterns :
       CallNarrowCandidates(tab, n, pattern)
  \/ \E tab \in CallTabs, n \in ListLengths, pattern \in KindPatterns :
       \E context \in CallContexts(tab) :
          \/ CallScoreAllProjects(tab, n, pattern, context)
          \/ CallGetBestMatch(tab, n, pattern, context)

SpecMatcher == InitMatcher /\ [][NextMatcher]_vars

(***************************************************************************)
(* The matcher asked twice                                                 *)
(***************************************************************************)
\* How often time passes between two calls with the same arguments, and by how much.
MaxRescoreTicks == 2

RescoreTickSteps == {60000, 5 * 60000}

\* The project lists scored twice: one or two projects.
RescoreLengths == {1, 2}

\* matcher.scoreTabForProject(tab, projects[0], context) and
\* matcher.getBestMatch(tab, projects, context) are applied.
CallScoreTabForProject(tab, n, pattern, context) ==
  LET list == ProjectList(n, pattern, tab)
  IN  /\ call = NoCall
      /\ call' = [op |-> "scoreTabForProject", tab |-> tab, projects |-> list,
                  context |-> context, now |-> clock,
                  result |-> scoreTabForProject(tab, list[1], context, clock),
                  best |-> getBestMatch(tab, list, context, clock),
                  again |-> <<>>]
      /\ UNCHANGED <<clock, ticks, events, browser, opened, tabs, projects, nextId,
                     activeContexts, lastActivation, handlers, lastMessage, errors>>

\* Time passes before the second call.
RescoreTick ==
  /\ call # NoCall /\ call.again = <<>>
  /\ ticks < MaxRescoreTicks
  /\ \E d \in RescoreTickSteps : clock' = clock + d
  /\ ticks' = ticks + 1
  /\ UNCHANGED <<call, errors, events, browser, opened, tabs, projects, nextId,
                 activeContexts, lastActivation, handlers, lastMessage>>

\* Both functions are applied again to the same tab, projects and context.
CallScoreAgain ==
  /\ call # NoCall /\ call.again = <<>>
  /\ call' = [call EXCEPT !.again =
                <<[now |-> clock,
                   result |-> scoreTabForProject(call.tab, call.projects[1], call.context,
                                                 clock),
                   best |-> getBestMatch(call.tab, call.projects, call.context, clock)]>>]
  /\ UNCHANGED <<clock, ticks, events, browser, opened, tabs, projects, nextId,
                 activeContexts, lastActivation, handlers, lastMessage, errors>>

InitRescore == Quiet /\ clock = CallTime /\ call = NoCall

NextRescore ==
  \/ CallReturns
  \/ RescoreTick
  \/ CallScoreAgain
  \/ \E tab \in CallTabs, n \in RescoreLengths, pattern \in KindPatterns :
       \E context \in CallContexts(tab) : CallScoreTabForProject(tab, n, pattern, context)

SpecRescore == InitRescore /\ [][NextRescore]_vars

(***************************************************************************)
(* The context tracker applied on its own                                  *)
(***************************************************************************)
\* How often time passes between the calls, and by how much.
MaxContextTicks == 3

ContextTickSteps == {1, 4999}

ContextWindows == {1, 2}

\* A tab record of window w, last active `age` ms before CallTime after `dwell` ms
\* in the foreground.
TrackedTab(t, w, page, age, dwell, projectId) ==
  [upsertTabMeta(t, page, <<>>, CallTime - age) EXCEPT
     !.windowId = w, !.activeScore = dwell, !.projectId = projectId,
     !.subprojectId = IF projectId = 0 THEN 0 ELSE projectId + 1]

\* The records the 'tabs' store may hold: in window 1 a tab just used, one that
\* leaves the 30 minute window at CallTime + 1 and one used 10 minutes ago without
\* dwell time; in window 2 one tab used 5 minutes ago.
TrackedTabs ==
  (1 :> TrackedTab(1, 1, GithubIssues, 0, 30000, 1))
  @@ (2 :> TrackedTab(2, 1, GithubWiki, CONTEXT_WINDOW_MS - 1, 120000, 1))
  @@ (3 :> TrackedTab(3, 1, ExampleIssues, 10 * 60000, 0, 0))
  @@ (4 :> TrackedTab(4, 2, DocsPage, 5 * 60000, 60000, 3))

TrackedStores ==
  {[t \in ids |-> TrackedTabs[t]] : ids \in {{1, 4}, {1, 2, 3, 4}, {2, 3}, {3, 4}}}

\* Time passes.
ContextTick ==
  /\ call = NoCall
  /\ ticks < MaxContextTicks
  /\ \E d \in ContextTickSteps : clock' = clock + d
  /\ ticks' = ticks + 1
  /\ UNCHANGED <<call, errors, events, browser, opened, tabs, projects, nextId,
                 activeContexts, lastActivation, handlers, lastMessage>>

\* contextTracker.updateContext(windowId, activatedTab) is applied.
CallUpdateContext(w, t) ==
  LET context == updateContext(w, tabs[t], getTabsByWindow(tabs, w), clock)
  IN  /\ call = NoCall
      /\ tabs[t].windowId = w
      /\ activeContexts' = StorePut(activeContexts, w, context)
      /\ call' = [op |-> "updateContext", windowId |-> w, tab |-> tabs[t],
                  now |-> clock, result |-> context]
      /\ UNCHANGED <<clock, ticks, events, browser, opened, tabs, projects, nextId,
                     lastActivation, handlers, lastMessage, errors>>

\* contextTracker.getContext(windowId) is applied.
CallGetContext(w) ==
  /\ call = NoCall
  /\ call' = [op |-> "getContext", windowId |-> w, now |-> clock,
              result |-> getContext(activeContexts, w, clock)]
  /\ UNCHANGED <<clock, ticks, events, browser, opened, tabs, projects, nextId,
                 activeContexts, lastActivation, handlers, lastMessage, errors>>

InitContext ==
  /\ ticks = 0 /\ events = 0
  /\ browser = [t \in TabIds |-> <<>>] /\ opened = {}
  /\ tabs \in TrackedStores
  /\ projects = <<>> /\ nextId = 1
  /\ activeContexts = <<>> /\ lastActivation = <<>>
  /\ handlers = [i \in Slots |-> Idle]
  /\ lastMessage = NoMessage /\ errors = 0
  /\ clock = CallTime /\ call = NoCall

NextContext ==
  \/ ContextTick
  \/ CallReturns
  \/ \E w \in ContextWindows, t \in DOMAIN tabs : CallUpdateContext(w, t)
  \/ \E w \in ContextWindows : CallGetContext(w)

SpecContext == InitContext /\ [][NextContext]_vars

(***************************************************************************)
(* The centroid functions applied on their own                             *)
(***************************************************************************)
\* The longest sequence of updates applied to one centroid.
MaxUpdates == 3

\* Token lists of a page: none, one token, two tokens, a token that occurs twice.
TokenLists ==
  {<<>>, <<"github">>, <<"github", "issues">>, <<"issues", "github", "issues">>}

\* The weights the program updates with: 0.1 (project), 0.2 (subproject), 1.
UpdateWeights == {ProjectUpdateWeight, SubprojectUpdateWeight, UnitWeight}

\* createCentroid(tokenArrays) is applied: the centroid the updates start from.
CallCreateCentroid(tokenArrays) ==
  LET centroid == createCentroid(tokenArrays, <<>>)
  IN  /\ call = NoCall
      /\ call' = [op |-> "updateCentroid", start |-> centroid, updates |-> <<>>,
                  result |-> centroid]
      /\ UNCHANGED <<clock, ticks, events, browser, opened, tabs, projects, nextId,
                     activeContexts, lastActivation, handlers, lastMessage, errors>>

\* updateCentroid(centroid, tokens, weight) is applied to the result so far.
CallUpdateCentroid(tokens, weight) ==
  /\ call.op = "updateCentroid"
  /\ Len(call.updates) < MaxUpdates
  /\ call' = [call EXCEPT
                !.updates = Append(@, [tokens |-> tokens, weight |-> weight]),
                !.result = updateCentroid(@, tokens, weight)]
  /\ UNCHANGED <<clock, ticks, events, browser, opened, tabs, projects, nextId,
                 activeContexts, lastActivation, handlers, lastMessage, errors>>

\* The tokens of the centroids and lists compared, and the weights a token can
\* have in a centroid: 0, 0.1 and 2.
SimilarityTokens == {"github", "issues", "wiki"}

SimilarityWeights == {0, 1, 20}

\* The longest token list compared with a centroid.
MaxListLen == 3

\* Every centroid over the tokens; totalWeight is the sum of its weights.
SimilarityCentroids ==
  {[tokens |-> map, totalWeight |-> SumOver(map, DOMAIN map)] :
     map \in UNION {[keys -> SimilarityWeights] : keys \in SUBSET SimilarityTokens}}

\* Every list of at most MaxListLen tokens, one of them in no centroid.
SimilarityLists ==
  UNION {[1..n -> {"github", "issues", "docs"}] : n \in 0..MaxListLen}

\* weightedTokenSimilarity(centroid, tokens) is applied.
CallWeightedTokenSimilarity(centroid, tokens) ==
  /\ call = NoCall
  /\ call' = [op |-> "weightedTokenSimilarity", centroid |-> centroid, tokens |-> tokens,
              cosine |-> cosineSimilarity(centroid, tokens),
              jaccard |-> jaccardSimilarity(centroid, tokens),
              result |-> weightedTokenSimilarity(centroid, tokens)]
  /\ UNCHANGED <<clock, ticks, events, browser, opened, tabs, projects, nextId,
                 activeContexts, lastActivation, handlers, lastMessage, errors>>

InitCentroid == Quiet /\ clock = CallTime /\ call = NoCall

NextCentroid ==
  \/ CallReturns
  \/ \E tokens \in TokenLists : CallCreateCentroid(<<tokens>>)
  \/ \E tokens \in TokenLists, weight \in UpdateWeights : CallUpdateCentroid(tokens, weight)
  \/ \E centroid \in SimilarityCentroids, tokens \in SimilarityLists :
       CallWeightedTokenSimilarity(centroid, tokens)

SpecCentroid == InitCentroid /\ [][NextCentroid]_vars

(***************************************************************************)
(* Centroid objects and the references to them                             *)
(***************************************************************************)
\* The most centroid objects allocated in one run.
MaxCells == 5

\* The most references kept by other holders.
MaxHeld == 2

\* An update that writes into the object it was given and returns it.
updateCentroidInPlace(heap, ref, tokens, weight) ==
  [heap |-> [heap EXCEPT ![ref] = updateCentroid(@, tokens, weight)], ref |-> ref]

\* updateCentroid on objects: heap is the sequence of centroid objects allocated so
\* far, ref the index of the one passed in.  new Map(centroid.tokens) and the object
\* literal returned are a fresh object; the one passed in is only read.
updateCentroidAt(heap, ref, tokens, weight) ==
  [heap |-> Append(heap, updateCentroid(heap[ref], tokens, weight)), ref |-> Len(heap) + 1]

\* createProjectForTab builds one centroid object and puts it both in
\* project.centroid and in signature.tokenCentroid of the first subproject.
CallCreateProjectObjects(tokens) ==
  /\ call = NoCall
  /\ call' = [op |-> "objects", heap |-> <<createCentroid(<<tokens>>, <<>>)>>,
              project |-> 1, subproject |-> 1, held |-> <<>>]
  /\ UNCHANGED <<clock, ticks, events, browser, opened, tabs, projects, nextId,
                 activeContexts, lastActivation, handlers, lastMessage, errors>>

\* Some other holder (projectCache.set keeps the project object) keeps a reference
\* to the project's or the subproject's centroid as it is now.
KeepReference(ofProject) ==
  LET ref == IF ofProject THEN call.project ELSE call.subproject
  IN  /\ call # NoCall
      /\ Len(call.held) < MaxHeld
      /\ call' = [call EXCEPT !.held = Append(@, [ref |-> ref, value |-> call.heap[ref]])]
      /\ UNCHANGED <<clock, ticks, events, browser, opened, tabs, projects, nextId,
                     activeContexts, lastActivation, handlers, lastMessage, errors>>

\* updateProjectCentroid on the project object: project.centroid is replaced by the
\* update by 0.1 and, when the tab's subproject is found, its tokenCentroid by the
\* update by 0.2.
CallUpdateProjectObjects(tokens, found) ==
  LET first  == updateCentroidAt(call.heap, call.project, tokens, ProjectUpdateWeight)
      second == updateCentroidAt(first.heap, call.subproject, tokens, SubprojectUpdateWeight)
  IN  /\ call # NoCall
      /\ Len(call.heap) + 2 <= MaxCells
      /\ call' = IF found
                 THEN [call EXCEPT !.heap = second.heap, !.project = first.ref,
                                   !.subproject = second.ref]
                 ELSE [call EXCEPT !.heap = first.heap, !.project = first.ref]
      /\ UNCHANGED <<clock, ticks, events, browser, opened, tabs, projects, nextId,
                     activeContexts, lastActivation, handlers, lastMessage, errors>>

InitObjects == Quiet /\ clock = CallTime /\ call = NoCall

NextObjects ==
  \/ CallReturns
  \/ \E tokens \in TokenLists : CallCreateProjectObjects(tokens)
  \/ \E ofProject \in BOOLEAN : KeepReference(ofProject)
  \/ \E tokens \in TokenLists, found \in BOOLEAN : CallUpdateProjectObjects(tokens, found)

SpecObjects == InitObjects /\ [][NextObjects]_vars

(***************************************************************************)
(* BatchProcessor applied on its own                                       *)
(***************************************************************************)
\* The most items added to one processor, and the largest maxBatchSize it is built
\* with (50 by default).
MaxAdds == 6

MaxBatchSize == 3

\* A flush that hands the queue over without taking the items off it.
flushKeepingQueue(b) ==
  IF b.queue = <<>> THEN [b EXCEPT !.timer = FALSE]
  ELSE [b EXCEPT !.timer = FALSE, !.batches = Append(@, b.queue)]

\* flush(): the timer is cleared; unless the queue is empty, the whole queue is
\* spliced off and handed to the processor.  b.batches lists the arguments of the
\* processor calls so far.
flush(b) ==
  IF b.queue = <<>> THEN [b EXCEPT !.timer = FALSE]
  ELSE [b EXCEPT !.timer = FALSE, !.batches = Append(@, b.queue), !.queue = <<>>]

\* scheduleFlush(): clearTimeout, setTimeout(flush, delay).
scheduleFlush(b) == [b EXCEPT !.timer = TRUE]

\* An add that flushes only once the queue is longer than maxBatchSize.
addThenFlushLate(b, item) ==
  LET pushed == [b EXCEPT !.queue = Append(@, item)]
  IN  IF Len(pushed.queue) > b.maxBatchSize THEN flush(pushed) ELSE scheduleFlush(pushed)

\* add(item): push, then flush at maxBatchSize items, else (re)start the timer.
add(b, item) ==
  LET pushed == [b EXCEPT !.queue = Append(@, item)]
  IN  IF Len(pushed.queue) >= b.maxBatchSize THEN flush(pushed) ELSE scheduleFlush(pushed)

\* new BatchProcessor(processor, delay, maxBatchSize)
NewBatchProcessor(maxBatchSize) ==
  /\ call = NoCall
  /\ call' = [op |-> "BatchProcessor", maxBatchSize |-> maxBatchSize, queue |-> <<>>,
              timer |-> FALSE, batches |-> <<>>, added |-> 0]
  /\ UNCHANGED <<clock, ticks, events, browser, opened, tabs, projects, nextId,
                 activeContexts, lastActivation, handlers, lastMessage, errors>>

\* processor.add(item); the items are numbered in the order they are added.
BatchAdd ==
  /\ call # NoCall
  /\ call.added < MaxAdds
  /\ call' = add([call EXCEPT !.added = @ + 1], call.added + 1)
  /\ UNCHANGED <<clock, ticks, events, browser, opened, tabs, projects, nextId,
                 activeContexts, lastActivation, handlers, lastMessage, errors>>

\* The timer set by scheduleFlush fires.
BatchTimerFires ==
  /\ call # NoCall
  /\ call.timer
  /\ call' = flush(call)
  /\ UNCHANGED <<clock, ticks, events, browser, opened, tabs, projects, nextId,
                 activeContexts, lastActivation, handlers, lastMessage, errors>>

InitBatch == Quiet /\ clock = CallTime /\ call = NoCall

NextBatch ==
  \/ CallReturns
  \/ \E maxBatchSize \in 1..MaxBatchSize : NewBatchProcessor(maxBatchSize)
  \/ BatchAdd
  \/ BatchTimerFires

SpecBatch == InitBatch /\ [][NextBatch]_vars

\* One processor that is kept for good, and whose timer fires when it stays set.
NextBatchKept ==
  \/ \E maxBatchSize \in 1..MaxBatchSize : NewBatchProcessor(maxBatchSize)
  \/ BatchAdd
  \/ BatchTimerFires

SpecBatchTimers == InitBatch /\ [][NextBatchKept]_vars /\ WF_vars(BatchTimerFires)

(***************************************************************************)
(* One project scored, for the rules it has and the time it was last used  *)
(***************************************************************************)
\* The page at the root of a site: its path has no segments.
ExampleRoot == [url |-> "https://www.example.net/", title |-> "Example"]

\* A page five segments deep.
DeepPage == [url |-> "https://github.com/org/repo/issues/1/2", title |-> "Issue 1"]

\* The tabs scored.
ScoredTabs == CallTabs \cup {upsertTabMeta(1, DeepPage, <<>>, CallTime)}

\* The pages the scored project was created for.
ScoredBases == {GithubIssues, ExamplePost, ExampleRoot}

\* The rules a project may carry (ProjectRule.type 'host', 'domain' or 'path_prefix').
RuleChoices ==
  {[type |-> "host", value |-> "github.com", weight |-> UnitWeight],
   [type |-> "domain", value |-> "github.com", weight |-> UnitWeight],
   [type |-> "domain", value |-> "example.net", weight |-> UnitWeight],
   [type |-> "path_prefix", value |-> "org", weight |-> UnitWeight],
   [type |-> "path_prefix", value |-> "org/repo", weight |-> UnitWeight],
   [type |-> "path_prefix", value |-> "org/repo/issues/1/2", weight |-> UnitWeight]}

\* The longest rule list of a scored project.
MaxRules == 2

RuleLists == UNION {[1..n -> RuleChoices] : n \in 0..MaxRules}

\* How long before the call the project was last active.
ScoredAges ==
  {0, 5 * 60000 - 1, 5 * 60000, 10 * 60000, 15 * 60000 - 1, 15 * 60000,
   CONTEXT_WINDOW_MS - 1, CONTEXT_WINDOW_MS}

\* The project with ids 1 and 2 created for the base page, with the given rules,
\* last active age milliseconds before now.
ScoredProject(base, rules, age, now) ==
  LET made == createProjectForTab(upsertTabMeta(2, base, <<>>, now - age), now - age,
                                  0, 1, 2)
  IN  [made EXCEPT !.rules = rules]

\* matcher.scoreTabForProject(tab, project, context) is applied.
CallScoreProject(tab, base, rules, age, context) ==
  LET project == ScoredProject(base, rules, age, clock)
  IN  /\ call = NoCall
      /\ call' = [op |-> "scoreProject", tab |-> tab, project |-> project,
                  context |-> context, now |-> clock,
                  result |-> scoreTabForProject(tab, project, context, clock)]
      /\ UNCHANGED <<clock, ticks, events, browser, opened, tabs, projects, nextId,
                     activeContexts, lastActivation, handlers, lastMessage, errors>>

InitScore == Quiet /\ clock = CallTime /\ call = NoCall

NextScore ==
  \/ CallReturns
  \/ \E tab \in ScoredTabs, base \in ScoredBases, rules \in RuleLists, age \in ScoredAges :
       \E context \in CallContexts(tab) : CallScoreProject(tab, base, rules, age, context)

SpecScore == InitScore /\ [][NextScore]_vars

(***************************************************************************)
(* Subproject resolution applied on its own                                *)
(***************************************************************************)
\* The most subprojects of a resolved project.
MaxSubprojects == 2

\* The subproject createProjectForTab makes for a page, with the given id.
SubprojectFor(page, id) ==
  createProjectForTab(upsertTabMeta(2, page, <<>>, CallTime), CallTime, 0, 1, id).subprojects[1]

SubprojectPages == {GithubIssues, GithubWiki, DocsPage, ExamplePost, ExampleRoot}

\* matcher.findBestSubproject(tab, project) is applied, by way of scoreTabForProject;
\* the k-th subproject has id k.
CallFindBestSubproject(tab, pages) ==
  LET subs    == [k \in 1..Len(pages) |-> SubprojectFor(pages[k], k)]
      project == [ScoredProject(GithubIssues, <<>>, 0, clock) EXCEPT !.subprojects = subs]
  IN  /\ call = NoCall
      /\ call' = [op |-> "findBestSubproject", tab |-> tab, project |-> project,
                  result |-> scoreTabForProject(tab, project, <<>>, clock).subprojectId]
      /\ UNCHANGED <<clock, ticks, events, browser, opened, tabs, projects, nextId,
                     activeContexts, lastActivation, handlers, lastMessage, errors>>

InitSubproject == Quiet /\ clock = CallTime /\ call = NoCall

NextSubproject ==
  \/ CallReturns
  \/ \E tab \in ScoredTabs \cup {upsertTabMeta(1, ExampleIssues, <<>>, CallTime)},
        n \in 0..MaxSubprojects :
       \E pages \in [1..n -> SubprojectPages] : CallFindBestSubproject(tab, pages)

SpecSubproject == InitSubproject /\ [][NextSubproject]_vars

(***************************************************************************)
(* Properties of the assignment engine                                     *)
(***************************************************************************)
\* The listener in slot i takes its step from pc.  Only its own steps change a
\* listener that is in flight, and each of them changes it.
Ran(i, pc) == handlers[i].pc = pc /\ handlers'[i] # handlers[i]

\* The tab a listener in flight is assigning, and the context it builds from the
\* window's tabs it read.
TabOf(i) == handlers[i].tab[1]

ContextOf(i) ==
  updateContext(handlers[i].windowId, TabOf(i), handlers[i].windowTabs, handlers[i].now)

\* The scored candidates of the listener in slot i: one result per narrowed candidate
\* of the projects it read, unfiltered and unsorted.
CandidateResults(i) ==
  LET candidates == narrowCandidates(TabOf(i), handlers[i].projects, clock)
  IN  {scoreTabForProject(TabOf(i), candidates[k], <<ContextOf(i)>>, clock) :
         k \in 1..Len(candidates)}

\* The candidate the engine decides on: one of largest total score.
IsBestOf(result, i) ==
  /\ result \in CandidateResults(i)
  /\ \A other \in CandidateResults(i) : other.score <= result.score

\* The assignment the last broadcast carried.
Broadcast(tabId, projectId, subprojectId, confidence, method) ==
  /\ lastMessage'.type = "CONTEXT_UPDATED"
  /\ lastMessage'.assignment =
       <<[tabId |-> tabId, projectId |-> projectId, subprojectId |-> subprojectId,
          confidence |-> confidence, method |-> method]>>

\* C1, one listener: when the best candidate of a non-manual tab scores s > 0.5 the
\* tab record gets that candidate's project and subproject, the feedback write and
\* the broadcast follow with confidence s and method 'deterministic' exactly when
\* s > 0.8 ('semantic' otherwise), and no step of this path makes a project.
C1_Commit(i) ==
  LET h == handlers[i]
  IN  /\ (Ran(i, "have_ctx") /\ \E r \in CandidateResults(i) : r.score > 5000) =>
           \E best \in CandidateResults(i) :
                /\ IsBestOf(best, i)
                /\ TabOf(i).tabId \in DOMAIN tabs'
                /\ tabs'[TabOf(i).tabId].projectId = best.projectId
                /\ tabs'[TabOf(i).tabId].subprojectId = best.subprojectId
                /\ handlers'[i].pc = "commit_get"
                /\ handlers'[i].best[1].score = best.score
                /\ handlers'[i].best[1].projectId = best.projectId
                /\ nextId' = nextId /\ projects' = projects
      /\ Ran(i, "commit_get") =>
           /\ handlers'[i].pc = "commit_put" /\ handlers'[i].best = h.best
           /\ nextId' = nextId /\ projects' = projects /\ tabs' = tabs
      /\ (Ran(i, "commit_put") /\ errors' = errors) =>
           /\ Broadcast(TabOf(i).tabId, h.best[1].projectId, h.best[1].subprojectId,
                        h.best[1].score,
                        IF h.best[1].score > 8000 THEN "deterministic" ELSE "semantic")
           /\ h.best[1].score > 5000
           /\ nextId' = nextId
           /\ DOMAIN projects' \subseteq DOMAIN projects \cup {h.best[1].projectId}
           /\ handlers'[i] = Idle

C2_ManualKept ==
  [][\A i \in Slots :
       (Ran(i, "assign") /\ TabOf(i).manuallyAssigned /\ TabOf(i).projectId # 0) =>
          /\ Broadcast(TabOf(i).tabId, TabOf(i).projectId, TabOf(i).subprojectId,
                       10000, "manual")
          /\ handlers'[i] = Idle
          /\ UNCHANGED <<projects, tabs, activeContexts, nextId>>]_vars

\* A manually moved tab was activated and answered as 'manual'.
C2_Witness ==
  /\ lastMessage.assignment # <<>>
  /\ lastMessage.assignment[1].method = "manual"
  /\ lastMessage.assignment[1].confidence = 10000
  /\ lastMessage.assignment[1].tabId \in DOMAIN tabs
  /\ tabs[lastMessage.assignment[1].tabId].manuallyAssigned

\* C3, one listener: the default branch is taken exactly when the projects read are
\* none or no narrowed candidate scores above 0.5; it puts one project under a fresh
\* id, leaves the other projects alone, stores the project and its first subproject
\* on the tab and broadcasts 'default' with confidence 1.0.
C3_Default(i) ==
  LET h == handlers[i]
  IN  /\ Ran(i, "have_projects") =>
           (handlers'[i].pc = "create_put" <=> Len(h.projects) = 0)
      /\ Ran(i, "have_ctx") =>
           (handlers'[i].pc = "create_put" <=>
              ~ \E r \in CandidateResults(i) : r.score > 5000)
      /\ Ran(i, "create_put") =>
           \E p \in DOMAIN projects' :
             /\ p \notin DOMAIN projects
             /\ DOMAIN projects' = DOMAIN projects \cup {p}
             /\ \A q \in DOMAIN projects : projects'[q] = projects[q]
             /\ projects'[p].projectId = p
             /\ handlers'[i].pc = "create_tab"
             /\ handlers'[i].project = <<projects'[p]>>
      /\ Ran(i, "create_tab") =>
           /\ TabOf(i).tabId \in DOMAIN tabs'
           /\ tabs'[TabOf(i).tabId].projectId = h.project[1].projectId
           /\ tabs'[TabOf(i).tabId].subprojectId = h.project[1].subprojects[1].subprojectId
           /\ Broadcast(TabOf(i).tabId, h.project[1].projectId,
                        h.project[1].subprojects[1].subprojectId, 10000, "default")
           /\ projects' = projects
           /\ handlers'[i] = Idle

HasHostRuleFor(project, tab) ==
  \E r \in 1..Len(project.rules) :
    project.rules[r].type = "host" /\ project.rules[r].value = tab.host

\* C4: when a project the engine read has a host rule equal to the tab's host, the
\* activation of a non-manual tab on that host does not go to the default branch: the
\* unnormalised total is above 0.8, no project is created, and the method broadcast
\* for a total above 0.8 is 'deterministic'.
C4_HostRuleDeterministic ==
  [][\A i \in Slots :
       /\ (Ran(i, "have_ctx")
           /\ \E k \in 1..Len(handlers[i].projects) :
                HasHostRuleFor(handlers[i].projects[k], TabOf(i))) =>
             /\ handlers'[i].pc = "commit_get"
             /\ handlers'[i].best[1].score > 8000
             /\ nextId' = nextId /\ projects' = projects
       /\ (Ran(i, "commit_put") /\ errors' = errors /\ handlers[i].best[1].score > 8000) =>
             /\ lastMessage'.assignment # <<>>
             /\ lastMessage'.assignment[1].method = "deterministic"
             /\ nextId' = nextId]_vars

\* A second tab on github.com was activated while the github.com project was in the
\* store: it joined that project, 'deterministic', and no project was added.
C4_Witness ==
  /\ lastMessage.assignment # <<>>
  /\ lastMessage.assignment[1].method = "deterministic"
  /\ lastMessage.assignment[1].tabId = 2
  /\ lastMessage.assignment[1].projectId = 1
  /\ 2 \in DOMAIN tabs /\ tabs[2].host = "github.com" /\ tabs[2].projectId = 1
  /\ DOMAIN projects = {1}

\* How often a token occurs in a token list.
Occurrences(tokens, t) == Cardinality({k \in 1..Len(tokens) : tokens[k] = t})

\* after is before with every token's weight grown by `rate` tenths per occurrence in
\* tokens.
Grown(before, after, tokens, rate) ==
  /\ DOMAIN after.tokens = DOMAIN before.tokens \cup Range(tokens)
  /\ \A t \in DOMAIN after.tokens :
       after.tokens[t] = WeightOf(before.tokens, t) + rate * Occurrences(tokens, t)
  /\ after.totalWeight = before.totalWeight + rate * Len(tokens)

\* The feedback of one commit, from the project record `before` to `after`:
\* lastActiveAt is now, the project's centroid grew by 0.1 per occurrence, the
\* subproject the tab resolved to grew by 0.2 per occurrence, and no other
\* subproject's centroid changed.
FeedbackApplied(before, after, tab, now) ==
  LET tokens == tokenize(tab.host, tab.pathTokens, tab.title, SignalH1(tab), "")
      resolved == {k \in 1..Len(before.subprojects) :
                     before.subprojects[k].subprojectId = tab.subprojectId}
  IN  /\ after.lastActiveAt = now
      /\ Grown(before.centroid, after.centroid, tokens, 1)
      /\ Len(after.subprojects) = Len(before.subprojects)
      /\ \A k \in 1..Len(before.subprojects) :
           IF k \in resolved /\ \A j \in resolved : k <= j
           THEN Grown(before.subprojects[k].signature.tokenCentroid,
                      after.subprojects[k].signature.tokenCentroid, tokens, 2)
           ELSE after.subprojects[k].signature.tokenCentroid
                  = before.subprojects[k].signature.tokenCentroid

\* C5: when an assignment to project P with resolved subproject S is committed, the
\* stored P gets lastActiveAt = now, its centroid grows by 0.1 per occurrence of each
\* tab token, S's centroid by 0.2 per occurrence, and no other project's record and
\* no other subproject's centroid changes.
C5_FeedbackOnStoredProject ==
  [][\A i \in Slots :
       (Ran(i, "commit_put") /\ errors' = errors /\ handlers[i].project # <<>>
        /\ handlers[i].best[1].projectId \in DOMAIN projects) =>
          LET P == handlers[i].best[1].projectId
          IN  /\ DOMAIN projects' = DOMAIN projects
              /\ FeedbackApplied(projects[P], projects'[P], TabOf(i), clock)
              /\ \A q \in DOMAIN projects \ {P} : projects'[q] = projects[q]]_vars

\* The same feedback measured from the record the listener read: what the write
\* does when nothing came between the read and the write.
FeedbackOnReadProject ==
  [][\A i \in Slots :
       (Ran(i, "commit_put") /\ errors' = errors /\ handlers[i].project # <<>>) =>
          LET P == handlers[i].best[1].projectId
          IN  /\ P \in DOMAIN projects'
              /\ FeedbackApplied(handlers[i].project[1], projects'[P], TabOf(i), clock)
              /\ \A q \in (DOMAIN projects' \cap DOMAIN projects) \ {P} :
                   projects'[q] = projects[q]]_vars

\* A listener that has issued a store request and has not finished.
InStore(i) == handlers[i].pc \notin {"idle", "got_tab"}

\* C6: tab-activity events are processed one at a time: while an onActivated listener
\* is between its first store read and its last store write, no other listener is.
C6_OneTransitionAtATime ==
  \A i, j \in Slots :
    (i # j /\ handlers[i].kind = "activated" /\ InStore(i)) => ~InStore(j)

\* C7: no write to a project is lost to a read-modify-write overlap: whenever a
\* listener writes a project back (feedback, rename, pin, lock) and the project is
\* still in the store, the stored record is the one the listener read.
C7_NoLostProjectUpdate ==
  [][\A i \in Slots :
       ((Ran(i, "commit_put") \/ Ran(i, "edit_put")) /\ handlers[i].project # <<>>
        /\ handlers[i].project[1].projectId \in DOMAIN projects) =>
          projects[handlers[i].project[1].projectId] = handlers[i].project[1]]_vars

\* The first two path segments joined by '/'.
FirstTwoJoined(path) ==
  IF Len(path) = 0 THEN ""
  ELSE IF Len(path) = 1 THEN path[1]
  ELSE path[1] \o "/" \o path[2]

\* centroid holds weight 1 per occurrence of each of the tokens and nothing else.
SeededFrom(centroid, tokens) ==
  /\ DOMAIN centroid.tokens = Range(tokens)
  /\ \A t \in Range(tokens) : centroid.tokens[t] = 10 * Occurrences(tokens, t)
  /\ centroid.totalWeight = 10 * Len(tokens)

\* C8, the project p synthesized for tab.
C8_Project(p, tab) ==
  LET tokens == tokenize(tab.host, tab.pathTokens, tab.title, "", "")
  IN  /\ IF StartsWith(tab.host, "www.")
         THEN "www." \o p.name = tab.host
         ELSE p.name = tab.host
      /\ p.rules = <<[type |-> "host", value |-> tab.host, weight |-> 10]>>
      /\ Len(p.subprojects) = 1
      /\ p.subprojects[1].signature.host = tab.host
      /\ p.subprojects[1].signature.pathPrefix = FirstTwoJoined(tab.pathTokens)
      /\ SeededFrom(p.centroid, tokens)
      /\ SeededFrom(p.subprojects[1].signature.tokenCentroid, tokens)
      /\ (tab.host = "github.com" /\ tab.pathTokens = <<"org", "repo", "issues">>) =>
            /\ p.name = "github.com"
            /\ p.subprojects[1].name = "org/repo"
            /\ p.subprojects[1].signature.pathPrefix = "org/repo"

\* C8: a project synthesized for a tab is named after the tab's host without a
\* leading 'www.', has exactly one rule (host, the tab's host, weight 1.0), exactly
\* one subproject with the tab's host and the first two path segments joined by '/'
\* as prefix, and a centroid of weight 1 per occurrence of the tab's tokens; for
\* github.com/org/repo/issues that is project github.com with subproject org/repo,
\* answered with method 'default' and confidence 1.0.
C8_SynthesizedProject ==
  [][\A i \in Slots :
       /\ Ran(i, "create_put") =>
            /\ handlers'[i].project # <<>>
            /\ handlers'[i].project[1].projectId \in DOMAIN projects'
            /\ projects'[handlers'[i].project[1].projectId] = handlers'[i].project[1]
            /\ C8_Project(handlers'[i].project[1], TabOf(i))
       /\ Ran(i, "create_tab") =>
            /\ lastMessage'.assignment # <<>>
            /\ lastMessage'.assignment[1].projectId = handlers[i].project[1].projectId
            /\ lastMessage'.assignment[1].method = "default"
            /\ lastMessage'.assignment[1].confidence = 10000]_vars

\* Scenario A has happened: right after the installation the tab on
\* github.com/org/repo/issues was activated, no project was there, and it got the new
\* project github.com with the one subproject org/repo, 'default', confidence 1.0.
C8_Witness ==
  /\ lastMessage.assignment =
       <<[tabId |-> 1, projectId |-> 1, subprojectId |-> 2, confidence |-> 10000,
          method |-> "default"]>>
  /\ 1 \in DOMAIN tabs /\ tabs[1].projectId = 1 /\ tabs[1].subprojectId = 2
  /\ tabs[1].host = "github.com" /\ tabs[1].pathTokens = <<"org", "repo", "issues">>
  /\ 1 \in DOMAIN projects
  /\ projects[1].name = "github.com"
  /\ Len(projects[1].subprojects) = 1
  /\ projects[1].subprojects[1].name = "org/repo"

\* The delete_project UI action for project p is dispatched.
DeleteRequested(p) ==
  \E i \in Slots :
    /\ handlers[i].pc = "idle"
    /\ handlers'[i].kind = "delete_project"
    /\ handlers'[i].action = <<[projectId |-> p, subprojectId |-> 0]>>

\* C9: a project that is in the store stays in the store across every step of every
\* listener and every event, except the step of a delete_project UI action for it.
C9_OnlyDeleteRemovesProject ==
  [][\A p \in DOMAIN projects : p \in DOMAIN projects' \/ DeleteRequested(p)]_vars

\* The only tab of project 1 was closed and its record removed; project 1 is still
\* in the store.
C9_Witness ==
  /\ lastMessage.type = "TAB_UPDATED" /\ lastMessage.tabId = 1
  /\ browser[1] = <<>> /\ 1 \notin DOMAIN tabs
  /\ getTabsByProject(tabs, 1) = <<>>
  /\ 1 \in DOMAIN projects

\* C10: once the tab-removed event for a tab has been handled and every listener
\* that was in flight has finished, the 'tabs' store holds no record for the tab.
C10_ClosedTabHasNoRecord ==
  \A t \in opened :
    (browser[t] = <<>> /\ \A i \in Slots : handlers[i].pc = "idle") => t \notin DOMAIN tabs

\* C11: for a url that cannot be parsed, upsertTabMeta throws before it writes: the
\* 'tabs' store is the same after the failed call as before it, the listener logs the
\* error and ends, and nothing is assigned or broadcast for the tab.
C11_BadUrlWritesNothing ==
  [][\A i \in Slots :
       (Ran(i, "upsert") /\ handlers[i].page[1].url = "http://") =>
          /\ tabs' = tabs
          /\ projects' = projects /\ nextId' = nextId
          /\ activeContexts' = activeContexts
          /\ lastMessage' = lastMessage
          /\ errors' = errors + 1
          /\ handlers'[i] = Idle]_vars

\* Tab 3 opened on a url that does not parse: its listener has failed and finished,
\* and the store holds no record for the tab.
C11_Witness ==
  /\ browser[3] = <<[url |-> "http://", title |-> "Untitled"]>>
  /\ \A i \in Slots : handlers[i].pc = "idle"
  /\ errors = 1
  /\ 3 \notin DOMAIN tabs

\* C12: when the project write of the feedback phase fails after the tab's
\* assignment has been stored, nothing is rolled back: the 'tabs' store is left as
\* it is, so a record that carries the decided projectId and subprojectId keeps
\* them, and the failure ends inside the listener, logged by its catch block.
C12_NoRollback ==
  [][\A i \in Slots :
       (Ran(i, "commit_put") /\ errors' # errors) =>
          /\ tabs' = tabs
          /\ (TabOf(i).tabId \in DOMAIN tabs /\ tabs[TabOf(i).tabId] = TabOf(i)) =>
                /\ tabs'[TabOf(i).tabId].projectId = handlers[i].best[1].projectId
                /\ tabs'[TabOf(i).tabId].subprojectId = handlers[i].best[1].subprojectId
          /\ projects' = projects
          /\ errors' = errors + 1
          /\ handlers'[i] = Idle]_vars

\* Tab 2 was activated and matched project 1, the feedback write failed: the tab
\* record carries project 1, the project record is the old one, one error is logged.
C12_Witness ==
  /\ errors = 1
  /\ \A i \in Slots : handlers[i].pc = "idle"
  /\ 2 \in DOMAIN tabs /\ tabs[2].projectId = 1 /\ ~tabs[2].manuallyAssigned
  /\ 1 \in DOMAIN projects /\ projects[1].lastActiveAt = StartTime
  /\ lastMessage = NoMessage

\* The step with which the activation listener in slot i ends after a decision: the
\* manual answer, the end of the match branch, the end of the default branch.
EndsDecided(i) ==
  /\ handlers[i].kind = "activated"
  /\ handlers[i].pc \in {"assign", "commit_put", "create_tab"}
  /\ handlers'[i] = Idle

\* The broadcast of that step carries a TabAssignment of the listener's tab.
Published(i) ==
  /\ lastMessage'.type = "CONTEXT_UPDATED"
  /\ lastMessage'.assignment # <<>>
  /\ lastMessage'.assignment[1].tabId = TabOf(i).tabId
  /\ handlers[i].pc = "commit_put" =>
        /\ lastMessage'.assignment[1].projectId = TabOf(i).projectId
        /\ lastMessage'.assignment[1].subprojectId = TabOf(i).subprojectId

\* C13: every classification decision is published: an activation listener that has
\* decided ends with the CONTEXT_UPDATED broadcast of its tab's TabAssignment.
C13_DecisionPublished ==
  [][\A i \in Slots : EndsDecided(i) => Published(i)]_vars

\* What the code does give: the decision is broadcast whenever the listener ends
\* without an error, and the broadcast (fire and forget) changes no store.
PublishedUnlessWriteFails ==
  [][\A i \in Slots : (EndsDecided(i) /\ errors' = errors) => Published(i)]_vars

\* The projects of a list that satisfy Keep, in the order of the list.
Kept(list, Keep(_)) == SelectSeq(list, Keep)

HostStage(tab, list) ==
  LET Keep(p) ==
        \/ \E k \in 1..Len(p.subprojects) : p.subprojects[k].signature.host = tab.host
        \/ \E k \in 1..Len(p.rules) : p.rules[k].type = "host" /\ p.rules[k].value = tab.host
  IN  Kept(list, Keep)

DomainStage(tab, list) ==
  LET labels == Split(tab.host, ".")
      domain == IF Len(labels) <= 2 THEN tab.host
                ELSE Join(<<labels[Len(labels) - 1], labels[Len(labels)]>>, ".")
      Keep(p) == \E k \in 1..Len(p.rules) :
                    p.rules[k].type = "domain" /\ p.rules[k].value = domain
  IN  Kept(list, Keep)

\* result is the recency stage of list: projects used less than 30 minutes before
\* now, most recent first, the 15 most recent of them at most.
IsRecentStage(result, list, now) ==
  LET IsRecent(p) == now - p.lastActiveAt < 30 * 60000
      recent == {list[k] : k \in {j \in 1..Len(list) : IsRecent(list[j])}}
      chosen == {result[k] : k \in 1..Len(result)}
  IN  /\ chosen \subseteq recent
      /\ Len(result) = Min(15, Cardinality(recent))
      /\ Cardinality(chosen) = Len(result)
      /\ \A k \in 1..Len(result) - 1 : result[k].lastActiveAt >= result[k + 1].lastActiveAt
      /\ \A p \in recent \ chosen, q \in chosen : p.lastActiveAt <= q.lastActiveAt

\* C14: narrowCandidates returns the first non-empty of: the projects with a
\* subproject signature or a host rule on the tab's host; the projects with a domain
\* rule on the last two labels of the host; the projects used in the last 30
\* minutes, most recent first, 15 at most; the first 20 projects as supplied.  The
\* result is drawn from the supplied list and is empty only for an empty list.
C14_NarrowStages ==
  call.op = "narrowCandidates" =>
    LET tab == call.tab
        list == call.projects
        result == call.result
        hosts == HostStage(tab, list)
        domains == DomainStage(tab, list)
        HasRecent == \E k \in 1..Len(list) : call.now - list[k].lastActiveAt < 30 * 60000
    IN  /\ IF hosts # <<>> THEN result = hosts
           ELSE IF domains # <<>> THEN result = domains
           ELSE IF HasRecent THEN IsRecentStage(result, list, call.now)
           ELSE result = SubSeq(list, 1, Min(20, Len(list)))
        /\ \A k \in 1..Len(result) : \E j \in 1..Len(list) : result[k] = list[j]
        /\ (result = <<>>) <=> (list = <<>>)

\* The recency stage cut at 15: sixteen projects used in the last 30 minutes, the
\* one used longest ago left out and the most recent first.
C14_Witness ==
  /\ call.op = "narrowCandidates"
  /\ Len(call.projects) = 16
  /\ Len(call.result) = 15
  /\ call.result[1] = call.projects[16]
  /\ call.result[15] = call.projects[2]

\* C15: the candidates narrowCandidates hands to scoring are 20 at most, whatever
\* the projects and the tab.
C15_AtMostTwentyCandidates ==
  call.op = "narrowCandidates" => Len(call.result) <= 20

\* What the code does give: the cut holds for the recency stage and the fallback,
\* that is whenever no project matches the tab's host or domain.
AtMostTwentyPastRules ==
  (/\ call.op = "narrowCandidates"
   /\ HostStage(call.tab, call.projects) = <<>>
   /\ DomainStage(call.tab, call.projects) = <<>>) => Len(call.result) <= 20

\* The scoring results of the projects of a list, one per project.
ResultsOf(tab, list, context, now) ==
  {scoreTabForProject(tab, list[k], context, now) : k \in 1..Len(list)}

\* C16: scoreAllProjects returns exactly the results whose total is at least 0.3 (a
\* total of exactly 0.3 is kept), in non-increasing order of total; getBestMatch
\* returns a result of a narrowed candidate with the largest total, or null when no
\* narrowed candidate reaches 0.3, and never a project outside the narrowed set.
C16_ThresholdAndBest ==
  /\ call.op = "scoreAllProjects" =>
       LET all == ResultsOf(call.tab, call.projects, call.context, call.now)
           result == call.result
       IN  /\ {result[k] : k \in 1..Len(result)} = {r \in all : r.score >= 3000}
           /\ Len(result) = Cardinality({r \in all : r.score >= 3000})
           /\ \A k \in 1..Len(result) - 1 : result[k].score >= result[k + 1].score
  /\ call.op = "getBestMatch" =>
       LET narrowed == narrowCandidates(call.tab, call.projects, call.now)
           scored == ResultsOf(call.tab, narrowed, call.context, call.now)
           result == call.result
       IN  IF \E r \in scored : r.score >= 3000
           THEN /\ result # <<>>
                /\ result[1] \in scored
                /\ \A r \in scored : r.score <= result[1].score
                /\ \E k \in 1..Len(narrowed) : narrowed[k].projectId = result[1].projectId
           ELSE result = <<>>

\* Three projects scored: one below 0.3 is dropped, one of exactly 0.3 is kept, last.
C16_Witness ==
  /\ call.op = "scoreAllProjects"
  /\ Len(call.projects) = 3
  /\ Len(call.result) = 2
  /\ call.result[1].score > 3000
  /\ call.result[2].score = 3000

\* getBestMatch answers null for a list that is not empty.
C16_NullWitness ==
  /\ call.op = "getBestMatch"
  /\ call.projects # <<>>
  /\ call.result = <<>>

\* C17: getContext(windowId) answers the cached snapshot of that window if and only
\* if there is one and it was computed less than 5000 ms ago, and absent otherwise;
\* the snapshot is the one the last updateContext of that window stored: only
\* updateContext changes the cache, and only the entry of its own window.
C17_ContextCache ==
  [][/\ (call = NoCall /\ call'.op = "getContext") =>
          LET w == call'.windowId
              fresh == /\ w \in DOMAIN activeContexts
                       /\ clock - activeContexts[w].computedAt < 5000
          IN  /\ fresh => call'.result = <<activeContexts[w]>>
              /\ ~fresh => call'.result = <<>>
     /\ (call = NoCall /\ call'.op = "updateContext") =>
          LET w == call'.windowId
          IN  /\ activeContexts'[w] = call'.result
              /\ call'.result.windowId = w
              /\ \A v \in ContextWindows \ {w} :
                    /\ v \in DOMAIN activeContexts' <=> v \in DOMAIN activeContexts
                    /\ v \in DOMAIN activeContexts => activeContexts'[v] = activeContexts[v]
     /\ ~(call = NoCall /\ call'.op = "updateContext") => activeContexts' = activeContexts
    ]_vars

\* A snapshot 4999 ms old is answered while window 2 has a snapshot of its own.
C17_Witness ==
  /\ call.op = "getContext" /\ call.windowId = 1
  /\ call.result # <<>>
  /\ call.now - call.result[1].computedAt = 4999
  /\ 2 \in DOMAIN activeContexts

\* A snapshot exactly 5000 ms old is not answered.
C17_StaleWitness ==
  /\ call.op = "getContext"
  /\ call.windowId \in DOMAIN activeContexts
  /\ call.now - activeContexts[call.windowId].computedAt = 5000
  /\ call.result = <<>>

\* C18: the snapshot updateContext builds has one recentTabs entry for exactly the
\* tabs of the window last active less than 30 minutes before now, each weighted
\* 0.7 * min(1, activeScore / 60000) + 0.3 * (1 - (now - lastActiveAt) / 30 min)
\* (in thousandths), in non-increasing order of weight; activeProjectId and
\* activeSubprojectId are the activated tab's, computedAt is now.
C18_Snapshot ==
  call.op = "updateContext" =>
    LET w == call.windowId
        now == call.now
        snapshot == call.result
        recent == snapshot.recentTabs
        inWindow == {t \in DOMAIN tabs :
                       tabs[t].windowId = w /\ now - tabs[t].lastActiveAt < 30 * 60000}
    IN  /\ {recent[k].tabId : k \in 1..Len(recent)} = inWindow
        /\ Len(recent) = Cardinality(inWindow)
        /\ \A k \in 1..Len(recent) :
             LET tab == tabs[recent[k].tabId]
                 dwell == IF tab.activeScore >= 60000 THEN 1000 ELSE tab.activeScore \div 60
                 recency == 1000 - (now - tab.lastActiveAt) \div 1800
             IN  /\ recent[k].weight = (700 * dwell + 300 * recency) \div 1000
                 /\ recent[k].lastActiveAt = tab.lastActiveAt
                 /\ recent[k].dwellTime = tab.activeScore
                 /\ recent[k].projectId = tab.projectId
                 /\ recent[k].subprojectId = tab.subprojectId
        /\ \A k \in 1..Len(recent) - 1 : recent[k].weight >= recent[k + 1].weight
        /\ snapshot.windowId = w
        /\ snapshot.activeProjectId = call.tab.projectId
        /\ snapshot.activeSubprojectId = call.tab.subprojectId
        /\ snapshot.computedAt = now

\* Window 1 holds three tabs, one of them used 30 minutes ago to the millisecond:
\* the snapshot has the other two, the one with the dwell time first.
C18_Witness ==
  /\ call.op = "updateContext" /\ call.windowId = 1
  /\ DOMAIN tabs = {1, 2, 3, 4}
  /\ call.now = CallTime + 1
  /\ Len(call.result.recentTabs) = 2
  /\ call.result.recentTabs[1].tabId = 1 /\ call.result.recentTabs[1].weight = 650
  /\ call.result.recentTabs[2].tabId = 3 /\ call.result.recentTabs[2].weight = 200
  /\ call.tab.tabId = 3 /\ call.result.activeProjectId = 0

\* The window's snapshot was computed at or after the activation the listener in
\* slot i handles.
RecomputedFor(i) ==
  /\ handlers[i].windowId \in DOMAIN activeContexts'
  /\ activeContexts'[handlers[i].windowId].computedAt >= handlers[i].activatedAt

\* C19: every tab activation that reaches the assignment step recomputes the
\* ActiveContext of the tab's window, whichever branch the assignment takes: when the
\* listener ends, the cached snapshot is one computed since that activation.
C19_ContextRecomputed ==
  [][\A i \in Slots : EndsDecided(i) => RecomputedFor(i)]_vars

\* What the code does give: the snapshot is recomputed on the activations that get
\* to score the tab against at least one project.
RecomputedWhenScored ==
  [][\A i \in Slots : Ran(i, "have_ctx") => RecomputedFor(i)]_vars

\* The centroid after the updates of a sequence, applied first to last.
RECURSIVE ApplyUpdates(_, _)
ApplyUpdates(centroid, updates) ==
  IF updates = <<>> THEN centroid
  ELSE ApplyUpdates(updateCentroid(centroid, Head(updates).tokens, Head(updates).weight),
                    Tail(updates))

\* The sum over the updates of weight times Count of the update's token list.
TotalAdded(updates, Count(_)) ==
  SumOver([k \in 1..Len(updates) |-> updates[k].weight * Count(updates[k].tokens)],
          1..Len(updates))

\* C20: centroid updates are additive and independent of their order: after a
\* sequence of updateCentroid calls (T_i, w_i) on a centroid C, each token weighs
\* what it weighed in C plus the sum of w_i times its occurrences in T_i, totalWeight
\* is C.totalWeight plus the sum of w_i times the length of T_i, and the same updates
\* in any other order give the same centroid.
C20_AdditiveUpdates ==
  call.op = "updateCentroid" =>
    LET updates == call.updates
        seen == UNION {{updates[k].tokens[j] : j \in 1..Len(updates[k].tokens)} :
                         k \in 1..Len(updates)}
    IN  /\ DOMAIN call.result.tokens = DOMAIN call.start.tokens \cup seen
        /\ \A t \in DOMAIN call.result.tokens :
             LET OccurrencesOfT(tokens) == Occurrences(tokens, t)
             IN  call.result.tokens[t] =
                   WeightOf(call.start.tokens, t) + TotalAdded(updates, OccurrencesOfT)
        /\ call.result.totalWeight = call.start.totalWeight + TotalAdded(updates, Len)
        /\ \A order \in Permutations(1..Len(updates)) :
             ApplyUpdates(call.start, [k \in 1..Len(updates) |-> updates[order[k]]])
               = call.result

\* Three updates with different token lists and weights on a centroid that already
\* weighs "github": 1 + 0.1 + 2 * 0.2 for "issues", 1 + 0.1 + 0.2 + 1 for "github".
C20_Witness ==
  /\ call.op = "updateCentroid"
  /\ call.start.tokens = ("github" :> 10 @@ "issues" :> 10)
  /\ call.updates = <<[tokens |-> <<"github", "issues">>, weight |-> 1],
                      [tokens |-> <<"issues", "github", "issues">>, weight |-> 2],
                      [tokens |-> <<"github">>, weight |-> 10]>>
  /\ call.result.tokens["issues"] = 15
  /\ call.result.tokens["github"] = 23
  /\ call.result.totalWeight = 38

\* C21: updateCentroid returns a new centroid and leaves the one passed in as it
\* was: no centroid object changes once it is built, so a reference kept elsewhere
\* still shows the tokens and totalWeight it showed when it was taken, and an update
\* of the project's centroid alone leaves the subproject's centroid, the same object
\* at first, as it was.
C21_InputUnchanged ==
  [][(call # NoCall /\ call' # NoCall) =>
       /\ \A ref \in 1..Len(call.heap) : call'.heap[ref] = call.heap[ref]
       /\ \A k \in 1..Len(call'.held) : call'.heap[call'.held[k].ref] = call'.held[k].value
       /\ call'.subproject = call.subproject =>
             call'.heap[call'.subproject] = call.heap[call.subproject]]_vars

\* The project's centroid was updated alone, with tokens: project and subproject no
\* longer share the object, the subproject's is the one built at creation, and a
\* reference to it taken before the update is held.
C21_Witness ==
  /\ call # NoCall
  /\ call.subproject = 1 /\ call.project = 2
  /\ call.heap[2] # call.heap[1]
  /\ call.heap[1] = createCentroid(<<(<<"github", "issues">>)>>, <<>>)
  /\ call.held # <<>> /\ call.held[1].ref = 1

\* C22: for every centroid with non-negative weights and every token list, with or
\* without duplicates, weightedTokenSimilarity is 0.6 * cosine + 0.4 * jaccard (in
\* thousandths), lies between 0 and 1, and is 0 when the centroid has no token or the
\* list is empty.
C22_SimilarityInUnitRange ==
  call.op = "weightedTokenSimilarity" =>
    /\ call.cosine \in 0..1000
    /\ call.jaccard \in 0..1000
    /\ call.result = (600 * call.cosine + 400 * call.jaccard) \div 1000
    /\ call.result \in 0..1000
    /\ (DOMAIN call.centroid.tokens = {} \/ call.tokens = <<>>) => call.result = 0

\* A list that names the centroid's heaviest token three times: the cosine is below 1.
C22_Witness ==
  /\ call.op = "weightedTokenSimilarity"
  /\ call.tokens = <<"github", "github", "github">>
  /\ call.centroid.tokens = ("github" :> 20 @@ "issues" :> 1)
  /\ call.cosine > 0 /\ call.cosine < 1000
  /\ call.result > 0 /\ call.result < 1000

\* Centroid and list are the same single token: the similarity is 1.
C22_OneWitness ==
  /\ call.op = "weightedTokenSimilarity"
  /\ call.tokens = <<"github">>
  /\ call.result = 1000

\* A scoring result whose five sub-scores lie in [0, 1] (thousandths) and whose total
\* is their sum weighted 3.0, 2.0, 1.5, 2.0 and 1.0 (ten-thousandths).
WellScored(result) ==
  LET b == result.breakdown
  IN  /\ b.hostMatch \in 0..1000
      /\ b.pathMatch \in 0..1000
      /\ b.tokenSimilarity \in 0..1000
      /\ b.chainProximity \in 0..1000
      /\ b.recencyBoost \in 0..1000
      /\ result.score = 30 * b.hostMatch + 20 * b.pathMatch + 15 * b.tokenSimilarity
                        + 20 * b.chainProximity + 10 * b.recencyBoost
      /\ result.score \in 0..95000

\* C23: whenever a listener scores its tab, every sub-score of every project it read
\* lies in [0, 1], every recent-tab weight of the context it computed lies in [0, 1],
\* and the total is 3.0 hostMatch + 2.0 pathMatch + 1.5 tokenSimilarity
\* + 2.0 chainProximity + 1.0 recencyBoost, hence in [0, 9.5].
C23_ScoresInRange ==
  [][\A i \in Slots :
       Ran(i, "have_ctx") =>
         /\ \A k \in 1..Len(handlers[i].projects) :
              WellScored(scoreTabForProject(TabOf(i), handlers[i].projects[k],
                                            <<ContextOf(i)>>, clock))
         /\ \A k \in 1..Len(ContextOf(i).recentTabs) :
              ContextOf(i).recentTabs[k].weight \in 0..1000
         /\ handlers'[i].best # <<>> => WellScored(handlers'[i].best[1])]_vars

\* A match was decided with all five sub-scores above 0.
C23_Witness ==
  \E i \in Slots :
    /\ handlers[i].pc = "commit_get"
    /\ handlers[i].best[1].breakdown.hostMatch > 0
    /\ handlers[i].best[1].breakdown.pathMatch > 0
    /\ handlers[i].best[1].breakdown.tokenSimilarity > 0
    /\ handlers[i].best[1].breakdown.chainProximity > 0
    /\ handlers[i].best[1].breakdown.recencyBoost > 0
    /\ handlers[i].best[1].breakdown.chainProximity # handlers[i].best[1].breakdown.tokenSimilarity

\* C24: scoring is deterministic in its arguments: scoreTabForProject and
\* getBestMatch applied twice to the same tab, the same projects and the same
\* context return the same results, whenever the two calls are made.
C24_SameArgumentsSameResult ==
  (call.op = "scoreTabForProject" /\ call.again # <<>>) =>
     /\ call.again[1].result = call.result
     /\ call.again[1].best = call.best

\* What the code does give: the same results for two calls made at the same time,
\* and without a context the same scoreTabForProject result at any time.
SameResultAtSameTime ==
  (call.op = "scoreTabForProject" /\ call.again # <<>>) =>
     /\ call.again[1].now = call.now =>
          call.again[1].result = call.result /\ call.again[1].best = call.best
     /\ call.context = <<>> => call.again[1].result = call.result

\* C25: a synthesized project gets the palette colour at the index (number of
\* projects in the store when it is created) modulo 10.
C25_ColourByProjectCount ==
  [][\A i \in Slots :
       Ran(i, "create_put") =>
         handlers'[i].project[1].color = COLORS[(Cardinality(DOMAIN projects) % 10) + 1]]_vars

\* What the code does give: the colour at the index (number of projects the listener
\* read with db.getAllProjects before it built the project) modulo 10.
ColourByCountRead ==
  [][\A i \in Slots :
       Ran(i, "create_put") =>
         handlers'[i].project[1].color = COLORS[(handlers[i].count % 10) + 1]]_vars

\* Projects created one after the other, each with all the earlier ones in the store,
\* cycle through the ten colours in order.
PaletteCycles ==
  call.op = "narrowCandidates" =>
    \A k \in 1..Len(call.projects) :
      call.projects[k].color = COLORS[((k - 1) % 10) + 1]

\* A url the extension must not index: none, or a chrome:// page.
Unindexable(url) == url = "" \/ StartsWith(url, "chrome://")

\* No tab record, and no tab a listener is assigning, has such a url.
NoBrowserPageIndexed ==
  /\ \A t \in DOMAIN tabs : ~Unindexable(tabs[t].url)
  /\ \A i \in Slots : handlers[i].tab # <<>> => ~Unindexable(handlers[i].tab[1].url)

\* An event for a tab on such a page writes nothing and starts nothing: the
\* activation listener returns after chrome.tabs.get, the created and updated
\* listeners return at once.
BrowserPageUntouched ==
  /\ \A i \in Slots :
       (Ran(i, "got_tab") /\ handlers[i].page # <<>> /\ Unindexable(handlers[i].page[1].url)) =>
          /\ handlers'[i] = Idle
          /\ tabs' = tabs /\ projects' = projects /\ nextId' = nextId
          /\ activeContexts' = activeContexts /\ lastMessage' = lastMessage
  /\ \A t \in TabIds :
       (browser'[t] # browser[t] /\ browser'[t] # <<>> /\ Unindexable(browser'[t][1].url)) =>
          /\ handlers' = handlers
          /\ tabs' = tabs /\ projects' = projects /\ nextId' = nextId
          /\ activeContexts' = activeContexts /\ lastMessage' = lastMessage

\* C26: tabs on chrome:// pages and tabs without a url are never indexed or
\* classified: whatever install, created, activated and updated events occur, no tab
\* record has such a url, and an event for such a tab produces no record, no
\* assignment and no project.
C26_BrowserPagesNotIndexed ==
  []NoBrowserPageIndexed /\ [][BrowserPageUntouched]_vars

\* After an installation with tab 2 on chrome://settings, tab 2 was activated: it has
\* no record, there is no project and nothing was broadcast.
C26_Witness ==
  /\ browser[2] = <<[url |-> "chrome://settings", title |-> "Settings"]>>
  /\ lastActivation # <<>> /\ lastActivation[1].tabId = 2
  /\ \A i \in Slots : handlers[i].pc = "idle"
  /\ 2 \notin DOMAIN tabs
  /\ projects = <<>>
  /\ lastMessage = NoMessage

\* C27: BatchProcessor caps every batch: whatever adds and timer firings occur, each
\* call of the processor gets at least 1 and at most maxBatchSize items.
C27_BatchesCapped ==
  call.op = "BatchProcessor" =>
    \A k \in 1..Len(call.batches) :
      Len(call.batches[k]) >= 1 /\ Len(call.batches[k]) <= call.maxBatchSize

\* With maxBatchSize 3: a batch of one item flushed by the timer, then a full batch
\* flushed by the third add.
C27_Witness ==
  /\ call.op = "BatchProcessor" /\ call.maxBatchSize = 3
  /\ call.batches = <<(<<1>>), <<2, 3, 4>>>>
  /\ call.queue = <<>> /\ ~call.timer

\* What the scored call is about.
HasHostRule(project, tab) ==
  \E i \in 1..Len(project.rules) :
    project.rules[i].type = "host" /\ project.rules[i].value = tab.host

HasDomainRule(project, tab) ==
  \E i \in 1..Len(project.rules) :
    project.rules[i].type = "domain" /\ project.rules[i].value = RegistrableDomain(tab.host)

HasSubprojectHost(project, tab) ==
  \E i \in 1..Len(project.subprojects) : project.subprojects[i].signature.host = tab.host

\* C28: hostMatch is 1.0 whenever the project has a host rule equal to the tab's
\* host, whatever the other rules and their order; otherwise 0.8 for a domain rule
\* equal to the tab's last two host labels, otherwise 0.9 for a subproject whose
\* signature host is the tab's host, otherwise 0.
C28_HostMatchByRuleKind ==
  call.op = "scoreProject" =>
    call.result.breakdown.hostMatch =
      IF HasHostRule(call.project, call.tab) THEN 1000
      ELSE IF HasDomainRule(call.project, call.tab) THEN 800
      ELSE IF HasSubprojectHost(call.project, call.tab) THEN 900
      ELSE 0

\* What the code does: the first rule in list order that is a matching host rule or
\* a matching domain rule decides between 1.0 and 0.8.
HostMatchByFirstRule ==
  call.op = "scoreProject" =>
    LET rules == call.project.rules
        hits  == {i \in 1..Len(rules) :
                    \/ rules[i].type = "host" /\ rules[i].value = call.tab.host
                    \/ rules[i].type = "domain"
                       /\ rules[i].value = RegistrableDomain(call.tab.host)}
        h     == call.result.breakdown.hostMatch
    IN  IF hits # {}
        THEN LET first == CHOOSE i \in hits : \A j \in hits : i <= j
             IN  h = IF rules[first].type = "host" THEN 1000 ELSE 800
        ELSE h = IF HasSubprojectHost(call.project, call.tab) THEN 900 ELSE 0

\* The claim's value is the code's whenever no matching domain rule is listed before
\* a matching host rule.
HostMatchWhenHostRuleFirst ==
  call.op = "scoreProject" =>
    LET rules == call.project.rules
        early == \E i, j \in 1..Len(rules) :
                   /\ i < j
                   /\ rules[i].type = "domain"
                   /\ rules[i].value = RegistrableDomain(call.tab.host)
                   /\ rules[j].type = "host" /\ rules[j].value = call.tab.host
    IN  ~early =>
          call.result.breakdown.hostMatch =
            IF HasHostRule(call.project, call.tab) THEN 1000
            ELSE IF HasDomainRule(call.project, call.tab) THEN 800
            ELSE IF HasSubprojectHost(call.project, call.tab) THEN 900
            ELSE 0

\* The number of path segments of a prefix: none for the empty prefix.
SegmentsOf(prefix) == IF prefix = "" THEN 0 ELSE Len(Split(prefix, "/"))

\* The prefixes of the scored project that the tab's joined path starts with.
MatchingPrefixes(project, tab) ==
  LET tabPath == Join(tab.pathTokens, "/")
  IN  {project.rules[i].value :
         i \in {j \in 1..Len(project.rules) :
                  /\ project.rules[j].type = "path_prefix"
                  /\ StartsWith(tabPath, project.rules[j].value)}}
      \cup
      {project.subprojects[i].signature.pathPrefix :
         i \in {j \in 1..Len(project.subprojects) :
                  StartsWith(tabPath, project.subprojects[j].signature.pathPrefix)}}

MaxOf(S) == CHOOSE m \in S : \A x \in S : x <= m

\* C29: pathMatch is the maximum, over the path-prefix rules and subproject prefixes
\* the tab's joined path starts with, of min(1.0, 0.25 * d), d the number of path
\* segments of the prefix, and 0 when none matches; the empty prefix has depth 0
\* and contributes 0.
C29_PathMatchBySegments ==
  call.op = "scoreProject" =>
    call.result.breakdown.pathMatch =
      MaxOf({Min(1000, 250 * SegmentsOf(prefix)) :
               prefix \in MatchingPrefixes(call.project, call.tab)} \cup {0})

\* What the code does: the depth is the length of prefix.split('/'), which is 1 for
\* the empty prefix.
PathMatchBySplitLength ==
  call.op = "scoreProject" =>
    call.result.breakdown.pathMatch =
      MaxOf({Min(1000, 250 * (IF prefix = "" THEN 1 ELSE SegmentsOf(prefix))) :
               prefix \in MatchingPrefixes(call.project, call.tab)} \cup {0})

\* The claim's value is the code's for a project without an empty prefix.
PathMatchWithoutEmptyPrefix ==
  (call.op = "scoreProject"
     /\ \A i \in 1..Len(call.project.subprojects) :
          call.project.subprojects[i].signature.pathPrefix # "")
    => call.result.breakdown.pathMatch =
         MaxOf({Min(1000, 250 * SegmentsOf(prefix)) :
                  prefix \in MatchingPrefixes(call.project, call.tab)} \cup {0})

\* A one-segment and a five-segment prefix both match: the deeper one counts, capped
\* at 1.0.
PathMatchDeepestReached ==
  /\ call.op = "scoreProject"
  /\ MatchingPrefixes(call.project, call.tab) = {"org", "org/repo/issues/1/2"}
  /\ call.result.breakdown.pathMatch = 1000

\* recencyBoost as the steps give it; without a context it and chainProximity are 0.
RecencyBySteps ==
  call.op = "scoreProject" =>
    LET b     == call.result.breakdown
        since == call.now - call.project.lastActiveAt
    IN  /\ call.context = <<>> => b.recencyBoost = 0 /\ b.chainProximity = 0
        /\ call.context # <<>> =>
             b.recencyBoost =
               IF call.context[1].activeProjectId = call.project.projectId THEN 1000
               ELSE IF since < 5 * 60000 THEN 900
               ELSE IF since < 15 * 60000 THEN 600
               ELSE IF since < 30 * 60000 THEN 300
               ELSE 0

\* The scored project is not active, not in the recent list, has no host or domain
\* rule, subproject host or centroid token in common with the tab, and was last
\* active 10 minutes ago.
ScoredIsQ ==
  LET project == call.project
      tokens  == tokenize(call.tab.host, call.tab.pathTokens, call.tab.title,
                          SignalH1(call.tab), SignalMeta(call.tab))
  IN  /\ call.op = "scoreProject"
      /\ call.context # <<>>
      /\ call.context[1].activeProjectId # project.projectId
      /\ \A i \in 1..Len(call.context[1].recentTabs) :
           call.context[1].recentTabs[i].projectId # project.projectId
      /\ ~HasHostRule(project, call.tab) /\ ~HasDomainRule(project, call.tab)
      /\ ~HasSubprojectHost(project, call.tab)
      /\ \A i \in 1..Len(tokens) : WeightOf(project.centroid.tokens, tokens[i]) = 0
      /\ call.now - project.lastActiveAt = 10 * 60000

\* C30: with a context, recencyBoost is 1.0 for the context's active project, else
\* 0.9, 0.6, 0.3 or 0 as the time since the project's lastActiveAt is under 5, under
\* 15, under 30 minutes, or 30 minutes and more (exactly 5 minutes gives 0.6); with
\* no context recencyBoost and chainProximity are both 0.  A project Q that is not
\* active, not in the recent list, has no rule or centroid overlap with the tab (no
\* prefix with segments matches) and was last active 10 minutes ago scores 0.6.
C30_RecencySteps ==
  /\ RecencyBySteps
  /\ (ScoredIsQ /\ \A prefix \in MatchingPrefixes(call.project, call.tab) : prefix = "")
       => call.result.score = 6000

\* Q scores 0.6 when no prefix at all, the empty one included, matches the tab.
QScoresRecencyWithoutEmptyPrefix ==
  (ScoredIsQ /\ MatchingPrefixes(call.project, call.tab) = {})
    => call.result.score = 6000

\* A project that is not the active one, last active exactly 5 minutes ago: 0.6.
C30_Witness ==
  /\ call.op = "scoreProject"
  /\ call.context # <<>>
  /\ call.context[1].activeProjectId # call.project.projectId
  /\ call.now - call.project.lastActiveAt = 5 * 60000
  /\ call.result.breakdown.recencyBoost = 600

\* The project of the example: nothing in common with the tab, last active 10
\* minutes ago, total 0.6.
C30_ExampleWitness ==
  /\ call.op = "scoreProject"
  /\ call.context # <<>>
  /\ call.context[1].activeProjectId # call.project.projectId
  /\ call.now - call.project.lastActiveAt = 10 * 60000
  /\ call.result.breakdown.hostMatch = 0
  /\ call.result.breakdown.pathMatch = 0
  /\ call.result.breakdown.tokenSimilarity = 0
  /\ call.result.breakdown.chainProximity = 0
  /\ call.result.score = 6000

\* The active project, last used 30 minutes ago: 1.0.
C30_ActiveWitness ==
  /\ call.op = "scoreProject"
  /\ call.context # <<>>
  /\ call.context[1].activeProjectId = call.project.projectId
  /\ call.now - call.project.lastActiveAt = CONTEXT_WINDOW_MS
  /\ call.result.breakdown.recencyBoost = 1000

\* The value 0.5 * (host equal) + 0.3 * (path starts with prefix) + 0.2 * similarity of
\* the i-th subproject of the resolved project, in millionths.
SubprojectValue(i) ==
  LET sig == call.project.subprojects[i].signature
      tab == call.tab
  IN  (IF sig.host = tab.host THEN 500000 ELSE 0)
      + (IF StartsWith(Join(tab.pathTokens, "/"), sig.pathPrefix) THEN 300000 ELSE 0)
      + 200 * weightedTokenSimilarity(sig.tokenCentroid,
                tokenize(tab.host, tab.pathTokens, tab.title, "", ""))

\* The subprojects whose host and prefix are the tab's host and first two segments.
ExactSubprojects ==
  {i \in 1..Len(call.project.subprojects) :
     /\ call.project.subprojects[i].signature.host = call.tab.host
     /\ call.project.subprojects[i].signature.pathPrefix
          = Join(Take(call.tab.pathTokens, 2), "/")}

\* C31: subproject resolution returns a subproject of the project or none: an exact
\* match of host and two-segment prefix is returned; otherwise the first subproject
\* of highest value, only if that value is strictly above 0.3; otherwise none.
C31_SubprojectResolution ==
  call.op = "findBestSubproject" =>
    LET subs == call.project.subprojects
        ids  == 1..Len(subs)
    IN  /\ call.result \in ids \cup {0}
        /\ ExactSubprojects # {} => call.result \in ExactSubprojects
        /\ ExactSubprojects = {} =>
             IF \E i \in ids : SubprojectValue(i) > 300000
             THEN /\ call.result \in ids
                  /\ \A j \in ids : SubprojectValue(j) <= SubprojectValue(call.result)
                  /\ \A j \in 1..(call.result - 1) :
                       SubprojectValue(j) < SubprojectValue(call.result)
             ELSE call.result = 0

\* Two subprojects of equal value above 0.3, neither exact: the first is returned.
C31_Witness ==
  /\ call.op = "findBestSubproject"
  /\ Len(call.project.subprojects) = 2
  /\ ExactSubprojects = {}
  /\ SubprojectValue(1) = SubprojectValue(2) /\ SubprojectValue(1) > 300000
  /\ call.result = 1

\* The best value is exactly 0.3: no subproject is selected.
C31_NoneWitness ==
  /\ call.op = "findBestSubproject"
  /\ \E i \in 1..Len(call.project.subprojects) : SubprojectValue(i) = 300000
  /\ \A i \in 1..Len(call.project.subprojects) : SubprojectValue(i) <= 300000
  /\ call.result = 0

\* The second subproject is the exact match and is returned over a first one.
C31_ExactWitness ==
  /\ call.op = "findBestSubproject"
  /\ ExactSubprojects = {2}
  /\ call.result = 2

\* The values of the host rules of a project.
HostRuleValues(project) ==
  {project.rules[k].value : k \in {j \in 1..Len(project.rules) :
                                     project.rules[j].type = "host"}}

\* C32: after any sequence of tab events, overlapping tab-activated handlers
\* included, no two projects in the store carry a host rule with the same value.
C32_OneProjectPerHost ==
  \A p, q \in DOMAIN projects :
    p # q => HostRuleValues(projects[p]) \cap HostRuleValues(projects[q]) = {}

\* A handler goes on to create a project only when the project list it read holds no
\* project with a host rule for its tab's host.
CreatesOnlyForUnreadHost ==
  [][\A i \in Slots :
       ((Ran(i, "have_projects") \/ Ran(i, "have_ctx")) /\ handlers'[i].pc = "create_put")
         => \A k \in 1..Len(handlers[i].projects) :
              TabOf(i).host \notin HostRuleValues(handlers[i].projects[k])]_vars

\* The stored record of tab t carries a manual assignment to project P.
ManuallyIn(store, t, P) ==
  /\ t \in DOMAIN store
  /\ store[t].manuallyAssigned /\ store[t].projectId = P /\ P # 0

\* C33: a manual assignment is never overwritten by automatic classification: once
\* move_tab_to_project has stored projectId = P and manuallyAssigned on a tab, both
\* stay, across every interleaving of tab-activated, tab-updated and page-signal
\* handlers, until another move_tab_to_project or a delete_project of P (or until
\* the tab is closed).
C33_ManualAssignmentKept ==
  [][\A t \in DOMAIN tabs :
       \A P \in DOMAIN projects \cup {tabs[t].projectId} :
         ManuallyIn(tabs, t, P) =>
           \/ ManuallyIn(tabs', t, P)
           \/ t \notin DOMAIN tabs'
           \/ \E i \in Slots : Ran(i, "move_put") /\ handlers[i].tabId = t
           \/ \E i \in Slots : Ran(i, "delete_loop") /\ handlers[i].action[1].projectId = P]_vars

\* A handler that wrote over a manual assignment held a copy of the record read
\* before the assignment was stored: a write from a copy that carries the manual
\* assignment keeps it.
ManualKeptFromOwnCopy ==
  [][\A i \in Slots :
       LET h == handlers[i]
           t == h.tabId
       IN  /\ ((Ran(i, "upsert") \/ Ran(i, "signals_put")) /\ h.existing # <<>>
                 /\ h.existing[1].manuallyAssigned /\ h.existing[1].projectId # 0
                 /\ tabs' # tabs)
               => ManuallyIn(tabs', t, h.existing[1].projectId)
           /\ (Ran(i, "assign") /\ IsManual(TabOf(i))) => tabs' = tabs]_vars

\* C34: method 'manual' is returned for a tab only when the tab's current projectId
\* was set by move_tab_to_project: an assignment with method 'manual' never names a
\* project that automatic classification chose.  In the activations that follow the
\* move to project 1 and its deletion, project 1 is the only one a move has set.
C34_ManualNamesMovedProject ==
  (lastMessage.type = "CONTEXT_UPDATED" /\ lastMessage.assignment # <<>>
     /\ lastMessage.assignment[1].method = "manual")
    => lastMessage.assignment[1].projectId = 1

\* The state the activations start from is one the worker reaches: the move and the
\* deletion have been handled.
ManualThenDeletedReached == ManualThenDeleted /\ events = MaxEvents

\* The automatic assignment of a tab whose projectId is unset is stored with the
\* manuallyAssigned flag the record had.
FlagKeptByAutomaticWrite ==
  [][\A i \in Slots :
       (Ran(i, "have_ctx") \/ Ran(i, "create_tab")) /\ tabs' # tabs
         => tabs'[handlers[i].tabId].manuallyAssigned = TabOf(i).manuallyAssigned]_vars

\* The subproject ids of a stored project.
SubprojectIds(p) ==
  {projects[p].subprojects[k].subprojectId : k \in 1..Len(projects[p].subprojects)}

\* C35: whenever no handler is in flight, every stored tab whose projectId is set
\* names a project in the store, and its subprojectId, when set, names a subproject
\* of that project.
C35_AssignmentsRefer ==
  (\A i \in Slots : handlers[i].pc = "idle") =>
    \A t \in DOMAIN tabs :
      tabs[t].projectId # 0 =>
        /\ tabs[t].projectId \in DOMAIN projects
        /\ tabs[t].subprojectId # 0 => tabs[t].subprojectId \in SubprojectIds(tabs[t].projectId)

\* Every project or subproject a stored tab names has existed: its id was handed out,
\* and the subproject belongs to the project named with it.
AssignmentsNameCreatedProjects ==
  \A t \in DOMAIN tabs :
    /\ tabs[t].projectId # 0 => tabs[t].projectId < nextId
    /\ tabs[t].subprojectId # 0 => tabs[t].subprojectId = tabs[t].projectId + 1

\* The context lists tab t among its recent tabs.
Lists(context, t) ==
  \E k \in 1..Len(context.recentTabs) : context.recentTabs[k].tabId = t

\* C36: when the tab-activated event for tab T has been handled, T's stored
\* lastActiveAt is not earlier than the activation time, and the context computed
\* during that activation lists T among its window's recentTabs.
C36_ActivatedTabIsRecent ==
  [][\A i \in Slots :
       /\ (EndsDecided(i) /\ handlers[i].tabId \in DOMAIN tabs')
            => tabs'[handlers[i].tabId].lastActiveAt >= handlers[i].activatedAt
       /\ Ran(i, "have_ctx") => Lists(ContextOf(i), handlers[i].tabId)]_vars

\* What the code does: the activated tab keeps the lastActiveAt its record had (only
\* the tab that was active before is stamped), and the context lists it exactly when
\* that time is less than 30 minutes back.
ActivatedTabKeepsLastActive ==
  [][\A i \in Slots :
       /\ (Ran(i, "upsert") /\ handlers[i].kind = "activated" /\ handlers[i].existing # <<>>
             /\ tabs' # tabs)
            => tabs'[handlers[i].tabId].lastActiveAt = handlers[i].existing[1].lastActiveAt
       /\ Ran(i, "have_ctx") =>
            (Lists(ContextOf(i), handlers[i].tabId)
               <=> \E k \in 1..Len(handlers[i].windowTabs) :
                     /\ handlers[i].windowTabs[k].tabId = handlers[i].tabId
                     /\ handlers[i].now - handlers[i].windowTabs[k].lastActiveAt
                          < CONTEXT_WINDOW_MS)]_vars

\* C37: dwell accounting is exact and never lost: the activation of another tab
\* credits the previously activated tab with exactly the time since its activation,
\* and a stored tab's activeScore never decreases (it stays the sum of the credits),
\* under any interleaving of the credit with other writes to the same tab.
C37_DwellNeverLost ==
  [][/\ \A t \in DOMAIN tabs \cap DOMAIN tabs' :
          tabs'[t].activeScore >= tabs[t].activeScore
     /\ \A i \in Slots :
          (Ran(i, "dwell") /\ handlers[i].existing # <<>>
             /\ handlers[i].existing[1].tabId \in DOMAIN tabs)
            => tabs'[handlers[i].existing[1].tabId].activeScore
                 = tabs[handlers[i].existing[1].tabId].activeScore + handlers[i].dwell]_vars

\* What the code does: the dwell time is the time from the previous activation to
\* this one, and it is added to the activeScore of the copy the listener read.
DwellAddedToCopyRead ==
  [][\A i \in Slots :
       /\ \A t \in TabIds :
            (handlers[i].pc = "idle" /\ handlers'[i].pc = "dwell"
               /\ handlers'[i].tabId = t)
              => handlers'[i].dwell = clock - lastActivation[1].timestamp
       /\ (Ran(i, "dwell") /\ handlers[i].existing # <<>>)
            => tabs'[handlers[i].existing[1].tabId].activeScore
                 = handlers[i].existing[1].activeScore + handlers[i].dwell]_vars

\* A credit of a positive dwell time is stored.
DwellCreditReached ==
  \E t \in DOMAIN tabs : tabs[t].activeScore > 0

\* The activation listener in slot i ends with an automatic assignment, to the best
\* match or to a project created for the tab.
EndsAssigned(i) ==
  /\ handlers[i].kind = "activated"
  /\ handlers[i].pc \in {"commit_put", "create_tab"}
  /\ handlers'[i] = Idle
  /\ lastMessage'.type = "CONTEXT_UPDATED" /\ lastMessage'.assignment # <<>>

\* C38: after the tab-activated event for tab T in window W has been handled with an
\* automatic assignment to project P, the context cached for W has activeProjectId P
\* and activeSubprojectId equal to T's assigned subproject.
C38_ContextNamesAssignedProject ==
  [][\A i \in Slots :
       EndsAssigned(i) =>
         /\ handlers[i].windowId \in DOMAIN activeContexts'
         /\ activeContexts'[handlers[i].windowId].activeProjectId
              = lastMessage'.assignment[1].projectId
         /\ activeContexts'[handlers[i].windowId].activeSubprojectId
              = lastMessage'.assignment[1].subprojectId]_vars

\* What the code does: the context is cached before the match is made, with the
\* project and subproject the tab record had when the activation began to assign it.
ContextNamesPriorProject ==
  [][\A i \in Slots :
       Ran(i, "have_ctx") =>
         /\ activeContexts'[handlers[i].windowId].activeProjectId = TabOf(i).projectId
         /\ activeContexts'[handlers[i].windowId].activeSubprojectId
              = TabOf(i).subprojectId]_vars

\* Every stored project has the one subproject it was created with.
OneSubprojectEach ==
  \A p \in DOMAIN projects :
    /\ Len(projects[p].subprojects) = 1
    /\ projects[p].subprojects[1].subprojectId = p + 1

\* A tab matched to a project whose subproject is on the tab's host is attached to
\* that subproject, whatever its path prefix.
AttachedToOriginalSubproject ==
  \A i \in Slots :
    (Ran(i, "have_ctx") /\ handlers'[i].pc = "commit_get") =>
      LET best    == handlers'[i].best[1]
          project == CHOOSE q \in Range(handlers[i].projects) : q.projectId = best.projectId
      IN  /\ Len(project.subprojects) = 1
          /\ project.subprojects[1].signature.host = TabOf(i).host
               => /\ best.subprojectId = project.subprojects[1].subprojectId
                  /\ tabs'[handlers[i].tabId].subprojectId = best.subprojectId

\* C39: every project created by the engine has exactly one subproject for as long as
\* it exists: no activation adds one, and a tab on the project's host with another
\* two-segment prefix is attached to the project's original subproject.
C39_OneSubprojectPerProject ==
  []OneSubprojectEach /\ [][AttachedToOriginalSubproject]_vars

\* Tab 2 (github.com/org/wiki) is stored in project 1, created for
\* github.com/org/repo/issues, under its subproject org/repo; the feedback write has
\* been made and the project still has that one subproject.
C39_Witness ==
  /\ 2 \in DOMAIN tabs /\ 1 \in DOMAIN projects
  /\ tabs[2].host = "github.com" /\ tabs[2].pathTokens = <<"org", "wiki">>
  /\ tabs[2].projectId = 1 /\ tabs[2].subprojectId = 2
  /\ projects[1].subprojects[1].signature.pathPrefix = "org/repo"
  /\ Len(projects[1].subprojects) = 1
  /\ projects[1].lastActiveAt > StartTime
  /\ \A i \in Slots : handlers[i].pc = "idle"

\* The batches handed to the processor so far, one after the other.
RECURSIVE Flatten(_)
Flatten(batches) == IF batches = <<>> THEN <<>> ELSE Head(batches) \o Flatten(Tail(batches))

\* The items passed so far, followed by those still queued, are the items added, each
\* once and in the order of addition.
EachOnceInOrder ==
  call.op = "BatchProcessor" =>
    Flatten(call.batches) \o call.queue = [k \in 1..call.added |-> k]

\* C40: BatchProcessor delivers every item exactly once and in order: each added item
\* is passed in exactly one batch, batches keep the order of addition, no item is
\* passed twice when size-triggered and timer flushes both occur, and every added
\* item is eventually passed once timers are allowed to fire.
C40_EveryItemOnceInOrder ==
  /\ []EachOnceInOrder
  /\ \A k \in 1..MaxAdds :
       (call.op = "BatchProcessor" /\ k \in Range(call.queue))
         ~> (call.op = "BatchProcessor" /\ k \in Range(Flatten(call.batches)))

\* With maxBatchSize 2: a size-triggered flush of two items, then a timer flush of the
\* third; nothing is left in the queue.
C40_Witness ==
  /\ call.op = "BatchProcessor" /\ call.maxBatchSize = 2
  /\ call.batches = <<(<<1, 2>>), <<3>>>>
  /\ call.queue = <<>> /\ call.added = 3
====
